---- MODULE Spec2Model ----
(***************************************************************************)
(* Chronologicon Engine: the file ingestion pipeline.                      *)
(*                                                                         *)
(* FileIngestionService (src/src/services/FileIngestionService.js) drives  *)
(* one background task per ingestion job; IngestionJob                     *)
(* (src/unnamed/part_000) is the Job Ledger, HistoricalEvent.bulkCreate    *)
(* (src/src/models/HistoricalEvent.js) the Event Store commit.             *)
(*                                                                         *)
(* A step of the model is one awaited call of the task: everything the     *)
(* code does synchronously between two awaits belongs to the step of the   *)
(* call that precedes it.  A ledger write, a commit and a file read each   *)
(* either take effect and return, or throw and leave the store untouched.  *)
(***************************************************************************)
EXTENDS Integers, Sequences, FiniteSets, TLC

(* ------------------------------ bounds -------------------------------- *)

\* Longest input file, in lines.
MaxLines == 5

\* `const batchSize = 100` (FileIngestionService.js:69), scaled down.
batchSize == 2

\* The 100 of `lineNumber % 100 === 0` (FileIngestionService.js:101), scaled
\* down with batchSize.
progressEvery == 2

\* Event ids are 1..MaxEventId; a bulkCreate call carries at most MaxBatch
\* events.
MaxEventId == 3
MaxBatch == 3

\* Timestamps of the overlap specification are 0..MaxTick.
MaxTick == 3

\* A line of the parser specification has at most MaxFields fields, and its
\* dates are 0..MaxDate.
MaxFields == 7
MaxDate == 1

\* Timestamps of the gap specification are 0..MaxGapTick.
MaxGapTick == 6

\* Longest input file of the specification of two jobs, in lines.
MaxConcurrentLines == 2

(* ------------------------------ inputs -------------------------------- *)

\* What parseLine makes of a line: a blank line, a well-formed event line,
\* a line that fails one of the parser's checks.
LineKinds == {"blank", "valid", "invalid"}

RECURSIVE SeqsUpTo(_, _)
SeqsUpTo(S, n) ==
    IF n = 0 THEN {<<>>}
    ELSE LET shorter == SeqsUpTo(S, n - 1)
         IN  shorter \cup {Append(s, x) : s \in {t \in shorter : Len(t) = n - 1}, x \in S}

Files == SeqsUpTo(LineKinds, MaxLines)

\* A path with no readable file behind it: fs.access rejects.
NoFile == [exists |-> FALSE, lines |-> <<>>]

File(lines) == [exists |-> TRUE, lines |-> lines]

Paths == {"events.txt", "missing.txt"}

JobIds == {"ingest-job-1"}

NULL == "NULL"

\* A TIMESTAMPTZ column: NULL, or the time it was set to.
NoTime == <<>>
Time(t) == <<t>>

VARIABLES
    disk,       \* path -> the lines of the file, or NoFile
    ledger,     \* ingestion_jobs: job_id -> row
    task,       \* job_id -> the locals of its processFile call and where it is
    store,      \* historical_events: the committed event drafts
    commits,    \* job_id -> the bulkCreate calls it made, in order (history)
    lastCall,   \* what the startIngestion call made in the latest step returned
    clock,      \* CURRENT_TIMESTAMP / new Date()
    txn,        \* the open transaction of a bulkCreate call and its inserts so far
    reply,      \* what any other call made in the latest step returned
    search      \* the locals of a findShortestPath call that is in its loops

vars == <<disk, ledger, task, store, commits, lastCall, clock, txn, reply, search>>

(* ---------------------- Job Ledger (IngestionJob) ---------------------- *)

\* The error strings the controller writes to the ledger.
LineError(n) == [text |-> "Line", line |-> n]
ProcessingFailed(cause) == [text |-> "Processing failed", cause |-> cause]

\* IngestionJob.create: the row INSERTed for {job_id, file_path, status}.
create(jobId, filePath, now) ==
    [job_id          |-> jobId,
     status          |-> "PROCESSING",
     file_path       |-> filePath,
     total_lines     |-> 0,
     processed_lines |-> 0,
     error_lines     |-> 0,
     errors          |-> <<>>,
     start_time      |-> Time(now),
     end_time        |-> NoTime]

allowedFields ==
    {"status", "total_lines", "processed_lines", "error_lines", "errors", "end_time"}

\* IngestionJob.updateProgress: UPDATE ... SET <each allowed field given>.
updateProgress(row, updates) ==
    [f \in DOMAIN row |->
        IF f \in DOMAIN updates /\ f \in allowedFields THEN updates[f] ELSE row[f]]

\* addError with $1::jsonb || errors: the message is put first.
addError_Prepend(row, errorMessage) ==
    [row EXCEPT !.errors = <<errorMessage>> \o @, !.error_lines = @ + 1]

\* addError without errors = errors || $1::jsonb.
addError_CountOnly(row, errorMessage) ==
    [row EXCEPT !.error_lines = @ + 1]

\* IngestionJob.addError: errors = errors || [msg], error_lines = error_lines + 1.
addError(row, errorMessage) ==
    [row EXCEPT !.errors = Append(@, errorMessage), !.error_lines = @ + 1]

\* IngestionJob.fail: status = 'FAILED', end_time = CURRENT_TIMESTAMP,
\* errors = errors || [msg].
fail(row, errorMessage, now) ==
    [row EXCEPT !.status = "FAILED", !.end_time = Time(now),
                !.errors = Append(@, errorMessage)]

(* ------------------- Event Store (HistoricalEvent) --------------------- *)

\* The draft parseLine returns for a well-formed line, by its provenance.
Draft(filePath, lineNumber) == [source_file |-> filePath, line_number |-> lineNumber]

SeqToSet(s) == {s[i] : i \in 1..Len(s)}

\* config/database transaction(): all of the inserts or none of them.
transaction(rows, inserts, ok) == IF ok THEN rows \cup inserts ELSE rows

\* bulkCreate without the transaction: what was inserted stays when the
\* call fails.
bulkCreate_NoTransaction(rows, events, ok) == rows \cup SeqToSet(events)

\* HistoricalEvent.bulkCreate: one INSERT per event, inside one transaction.
bulkCreate(rows, events, ok) ==
    IF Len(events) = 0 THEN rows ELSE transaction(rows, SeqToSet(events), ok)

(* -------------------- the parser, as the job sees it ------------------- *)

\* parseLine with the blank test of lines 161-163 missing: a blank line is
\* malformed.
parseLine_NoBlankTest(line, lineNumber, filePath) ==
    CASE line = "valid" -> [outcome |-> "draft", draft |-> Draft(filePath, lineNumber)]
      [] OTHER          -> [outcome |-> "throw"]

\* parseLine: null for a blank line, a draft for a well-formed line, a throw
\* for any other line.
parseLine(line, lineNumber, filePath) ==
    CASE line = "blank" -> [outcome |-> "null"]
      [] line = "valid" -> [outcome |-> "draft", draft |-> Draft(filePath, lineNumber)]
      [] OTHER          -> [outcome |-> "throw"]

\* countLines: one 'line' event per line of the file.
countLines(file) == Len(file)

(* ------------------ Ingestion Controller: processFile ------------------ *)

\* The locals of processFile when startIngestion calls it: the call runs up
\* to its first await, the pre-count.
NewTask(filePath) ==
    [pc             |-> "count",
     filePath       |-> filePath,
     totalLines     |-> 0,
     lineNumber     |-> 0,
     processedLines |-> 0,
     errorLines     |-> 0,
     eventBatch     |-> <<>>,
     error          |-> NULL]

\* The outer catch of processFile (line 129): the next await is fail().
Caught(t, cause) == [t EXCEPT !.pc = "fail", !.error = cause]

\* Lines 100-107: after the batch check, a flush is due every progressEvery
\* lines; otherwise the loop reads the next line.
AfterBatch(t) == IF t.lineNumber % progressEvery = 0 THEN "flush" ELSE "read"

\* AfterParse with > for >=: the commit comes one draft late.
AfterParse_Late(t) == IF Len(t.eventBatch) > batchSize THEN "commit" ELSE AfterBatch(t)

\* Lines 87-88: after the parse, a commit is due when the batch is full.
AfterParse(t) == IF Len(t.eventBatch) >= batchSize THEN "commit" ELSE AfterBatch(t)

\* ParseStep with the inner try/catch of lines 75-85 missing: the parse error
\* reaches the outer catch.
ParseStep_Abort(t, line) ==
    LET n == t.lineNumber + 1
        r == parseLine(line, n, t.filePath)
    IN  CASE r.outcome = "draft" ->
               LET t1 == [t EXCEPT !.lineNumber = n,
                                   !.eventBatch = Append(@, r.draft),
                                   !.processedLines = @ + 1]
               IN  [t1 EXCEPT !.pc = AfterParse(t1)]
          [] r.outcome = "null" ->
               LET t1 == [t EXCEPT !.lineNumber = n]
               IN  [t1 EXCEPT !.pc = AfterParse(t1)]
          [] OTHER ->
               Caught([t EXCEPT !.lineNumber = n], "parse")

\* Lines 73-85, up to the first await: count the line, parse it, and either
\* keep the draft, skip the line or count an error (addError is awaited next).
ParseStep(t, line) ==
    LET n == t.lineNumber + 1
        r == parseLine(line, n, t.filePath)
    IN  CASE r.outcome = "draft" ->
               LET t1 == [t EXCEPT !.lineNumber = n,
                                   !.eventBatch = Append(@, r.draft),
                                   !.processedLines = @ + 1]
               IN  [t1 EXCEPT !.pc = AfterParse(t1)]
          [] r.outcome = "null" ->
               LET t1 == [t EXCEPT !.lineNumber = n]
               IN  [t1 EXCEPT !.pc = AfterParse(t1)]
          [] OTHER ->
               [t EXCEPT !.lineNumber = n, !.errorLines = @ + 1, !.pc = "addError"]

\* CommitFailed without line 95/116: the batch stays counted as processed.
CommitFailed_NoDecrement(t) ==
    [t EXCEPT !.errorLines = @ + Len(t.eventBatch)]

\* Lines 92-97 and 113-117: a rejected batch is moved from processed to error.
CommitFailed(t) ==
    [t EXCEPT !.errorLines = @ + Len(t.eventBatch),
              !.processedLines = @ - Len(t.eventBatch)]

\* Lines 109-110: after the stream ends, a non-empty batch is committed.
AfterStream(t) == IF Len(t.eventBatch) > 0 THEN "tail" ELSE "complete"

\* ProgressUpdate with the line counter written as processed_lines.
ProgressUpdate_LineNumber(t) ==
    [processed_lines |-> t.lineNumber, error_lines |-> t.errorLines]

\* Lines 102-105: the fields of a progress flush.
ProgressUpdate(t) ==
    [processed_lines |-> t.processedLines, error_lines |-> t.errorLines]

\* CompletionUpdate without end_time.
CompletionUpdate_NoEndTime(t, now) ==
    [processed_lines |-> t.processedLines,
     error_lines     |-> t.errorLines,
     status          |-> "COMPLETED"]

\* Lines 121-126: the fields of the completing write.
CompletionUpdate(t, now) ==
    [processed_lines |-> t.processedLines,
     error_lines     |-> t.errorLines,
     status          |-> "COMPLETED",
     end_time        |-> Time(now)]

\* What the history keeps of a bulkCreate call: how many drafts it was given,
\* the lines they came from, and whether it succeeded.
CommitRecord(t, ok) ==
    [size  |-> Len(t.eventBatch),
     lines |-> {t.eventBatch[i].line_number : i \in 1..Len(t.eventBatch)},
     ok    |-> ok]

Running(j) == j \in DOMAIN task

Tick == clock' = clock + 1

\* A step of a background task is no call of startIngestion, and no other
\* call returns in it.
NoCall == [filePath |-> NULL, result |-> NULL, jobId |-> NULL]
NoReply == [op |-> NULL]
NoCallMade == lastCall' = NoCall /\ reply' = NoReply

\* No findShortestPath call is in its loops.
NoSearch == [pc |-> "none"]

\* No bulkCreate call has a transaction open.
NoTxn == [open |-> FALSE, rows |-> {}]

(* startIngestion *)

\* fs.access fails, or IngestionJob.create fails: the call throws 'Failed to
\* start ingestion' and nothing is created.
StartIngestionFails(filePath) ==
    /\ \/ ~disk[filePath].exists     \* fs.access rejects
       \/ disk[filePath].exists      \* IngestionJob.create rejects
    /\ lastCall' = [filePath |-> filePath, result |-> "Failed to start ingestion",
                    jobId |-> NULL]
    /\ reply' = NoReply
    /\ UNCHANGED <<search, txn, disk, ledger, task, store, commits, clock>>

\* StartIngestionOk without the fs.access of line 25.
StartIngestionOk_NoAccessCheck(filePath, jobId) ==
    /\ jobId \notin DOMAIN ledger
    /\ ledger' = (jobId :> create(jobId, filePath, clock)) @@ ledger
    /\ task' = (jobId :> NewTask(filePath)) @@ task
    /\ commits' = (jobId :> <<>>) @@ commits
    /\ lastCall' = [filePath |-> filePath, result |-> "Ingestion initiated",
                    jobId |-> jobId]
    /\ Tick /\ reply' = NoReply
    /\ UNCHANGED <<search, txn, disk, store>>

\* StartIngestionOk with IngestionJob.create of line 28 not awaited: the
\* call returns before the row exists.
StartIngestionOk_CreateNotAwaited(filePath, jobId) ==
    /\ jobId \notin DOMAIN task
    /\ disk[filePath].exists
    /\ ledger' = ledger
    /\ task' = (jobId :> NewTask(filePath)) @@ task
    /\ commits' = (jobId :> <<>>) @@ commits
    /\ lastCall' = [filePath |-> filePath, result |-> "Ingestion initiated",
                    jobId |-> jobId]
    /\ Tick /\ reply' = NoReply
    /\ UNCHANGED <<search, txn, disk, store>>

\* The file is accessible and the row is created: processFile is started and
\* the call returns the job id.
StartIngestionOk(filePath, jobId) ==
    /\ jobId \notin DOMAIN ledger
    /\ disk[filePath].exists
    /\ ledger' = (jobId :> create(jobId, filePath, clock)) @@ ledger
    /\ task' = (jobId :> NewTask(filePath)) @@ task
    /\ commits' = (jobId :> <<>>) @@ commits
    /\ lastCall' = [filePath |-> filePath, result |-> "Ingestion initiated",
                    jobId |-> jobId]
    /\ Tick /\ reply' = NoReply
    /\ UNCHANGED <<search, txn, disk, store>>

(* processFile, one awaited call per action *)

\* Line 57: countLines resolves with the number of lines, or rejects.
CountLines(j) ==
    /\ Running(j) /\ task[j].pc = "count"
    /\ LET t == task[j]
       IN  \/ task' = [task EXCEPT ![j] =
                         [t EXCEPT !.totalLines = countLines(disk[t.filePath].lines),
                                   !.pc = "setTotal"]]
           \/ task' = [task EXCEPT ![j] = Caught(t, "countLines")]
    /\ Tick /\ NoCallMade
    /\ UNCHANGED <<search, txn, disk, ledger, store, commits>>

\* Line 58: updateProgress({total_lines}).
SetTotalLines(j) ==
    /\ Running(j) /\ task[j].pc = "setTotal"
    /\ \/ /\ ledger' = [ledger EXCEPT ![j] =
                           updateProgress(@, [total_lines |-> task[j].totalLines])]
          /\ task' = [task EXCEPT ![j].pc = "read"]
       \/ /\ task' = [task EXCEPT ![j] = Caught(@, "ledger")]
          /\ UNCHANGED ledger
    /\ Tick /\ NoCallMade
    /\ UNCHANGED <<search, txn, disk, store, commits>>

\* Line 72: the stream yields the next line, ends, or fails.
ReadLine(j) ==
    /\ Running(j) /\ task[j].pc = "read"
    /\ LET t == task[j]
           file == disk[t.filePath].lines
       IN  \/ /\ t.lineNumber < Len(file)
              /\ task' = [task EXCEPT ![j] = ParseStep(t, file[t.lineNumber + 1])]
           \/ /\ t.lineNumber = Len(file)
              /\ task' = [task EXCEPT ![j].pc = AfterStream(t)]
           \/ task' = [task EXCEPT ![j] = Caught(t, "stream")]
    /\ Tick /\ NoCallMade
    /\ UNCHANGED <<search, txn, disk, ledger, store, commits>>

\* AddError with the UPDATE of addError lacking WHERE job_id = $2: every row
\* gets the error.
AddError_EveryRow(j) ==
    /\ Running(j) /\ task[j].pc = "addError"
    /\ \/ /\ ledger' = [k \in DOMAIN ledger |->
                           addError(ledger[k], LineError(task[j].lineNumber))]
          /\ task' = [task EXCEPT ![j].pc = AfterParse(task[j])]
       \/ /\ task' = [task EXCEPT ![j] = Caught(@, "ledger")]
          /\ UNCHANGED ledger
    /\ Tick /\ NoCallMade
    /\ UNCHANGED <<search, txn, disk, store, commits>>

\* Line 83: addError for the line that failed parsing.
AddError(j) ==
    /\ Running(j) /\ task[j].pc = "addError"
    /\ \/ /\ ledger' = [ledger EXCEPT ![j] = addError(@, LineError(task[j].lineNumber))]
          /\ task' = [task EXCEPT ![j].pc = AfterParse(task[j])]
       \/ /\ task' = [task EXCEPT ![j] = Caught(@, "ledger")]
          /\ UNCHANGED ledger
    /\ Tick /\ NoCallMade
    /\ UNCHANGED <<search, txn, disk, store, commits>>

\* CommitBatch with the inner try/catch of lines 89-97 missing: a rejected
\* batch reaches the outer catch.
CommitBatch_Rethrow(j) ==
    /\ Running(j) /\ task[j].pc = "commit"
    /\ \E ok \in BOOLEAN :
          LET t  == task[j]
              t1 == [t EXCEPT !.eventBatch = <<>>]
          IN  /\ store' = bulkCreate(store, t.eventBatch, ok)
              /\ commits' = [commits EXCEPT ![j] = Append(@, CommitRecord(t, ok))]
              /\ task' = [task EXCEPT ![j] =
                             IF ok THEN [t1 EXCEPT !.pc = AfterBatch(t1)]
                             ELSE Caught(t, "commit")]
    /\ Tick /\ NoCallMade
    /\ UNCHANGED <<search, txn, disk, ledger>>

\* CommitBatch without the eventBatch = [] of line 91: a committed batch
\* stays in the batch.
CommitBatch_KeepsBatch(j) ==
    /\ Running(j) /\ task[j].pc = "commit"
    /\ \E ok \in BOOLEAN :
          LET t  == task[j]
              t1 == IF ok THEN t ELSE [CommitFailed(t) EXCEPT !.eventBatch = <<>>]
          IN  /\ store' = bulkCreate(store, t.eventBatch, ok)
              /\ commits' = [commits EXCEPT ![j] = Append(@, CommitRecord(t, ok))]
              /\ task' = [task EXCEPT ![j] = [t1 EXCEPT !.pc = AfterBatch(t1)]]
    /\ Tick /\ NoCallMade
    /\ UNCHANGED <<search, txn, disk, ledger>>

\* Lines 88-98: the commit of a full batch; the loop goes on either way.
CommitBatch(j) ==
    /\ Running(j) /\ task[j].pc = "commit"
    /\ \E ok \in BOOLEAN :
          LET t  == task[j]
              t1 == [(IF ok THEN t ELSE CommitFailed(t)) EXCEPT !.eventBatch = <<>>]
          IN  /\ store' = bulkCreate(store, t.eventBatch, ok)
              /\ commits' = [commits EXCEPT ![j] = Append(@, CommitRecord(t, ok))]
              /\ task' = [task EXCEPT ![j] = [t1 EXCEPT !.pc = AfterBatch(t1)]]
    /\ Tick /\ NoCallMade
    /\ UNCHANGED <<search, txn, disk, ledger>>

\* Lines 101-106: the progress flush.
FlushProgress(j) ==
    /\ Running(j) /\ task[j].pc = "flush"
    /\ \/ /\ ledger' = [ledger EXCEPT ![j] = updateProgress(@, ProgressUpdate(task[j]))]
          /\ task' = [task EXCEPT ![j].pc = "read"]
       \/ /\ task' = [task EXCEPT ![j] = Caught(@, "ledger")]
          /\ UNCHANGED ledger
    /\ Tick /\ NoCallMade
    /\ UNCHANGED <<search, txn, disk, store, commits>>

\* Lines 110-118: the commit of the trailing batch.
CommitTail(j) ==
    /\ Running(j) /\ task[j].pc = "tail"
    /\ \E ok \in BOOLEAN :
          LET t  == task[j]
              t1 == IF ok THEN t ELSE CommitFailed(t)
          IN  /\ store' = bulkCreate(store, t.eventBatch, ok)
              /\ commits' = [commits EXCEPT ![j] = Append(@, CommitRecord(t, ok))]
              /\ task' = [task EXCEPT ![j] = [t1 EXCEPT !.pc = "complete"]]
    /\ Tick /\ NoCallMade
    /\ UNCHANGED <<search, txn, disk, ledger>>

\* Complete with a throw after the write took effect, still inside the try.
Complete_ThrowsAfterWrite(j) ==
    /\ Running(j) /\ task[j].pc = "complete"
    /\ \/ /\ ledger' = [ledger EXCEPT ![j] =
                           updateProgress(@, CompletionUpdate(task[j], clock))]
          /\ task' = [task EXCEPT ![j] = Caught(@, "ledger")]
       \/ /\ task' = [task EXCEPT ![j] = Caught(@, "ledger")]
          /\ UNCHANGED ledger
    /\ Tick /\ NoCallMade
    /\ UNCHANGED <<search, txn, disk, store, commits>>

\* Lines 121-126: the completing write.
Complete(j) ==
    /\ Running(j) /\ task[j].pc = "complete"
    /\ \/ /\ ledger' = [ledger EXCEPT ![j] =
                           updateProgress(@, CompletionUpdate(task[j], clock))]
          /\ task' = [task EXCEPT ![j].pc = "done"]
       \/ /\ task' = [task EXCEPT ![j] = Caught(@, "ledger")]
          /\ UNCHANGED ledger
    /\ Tick /\ NoCallMade
    /\ UNCHANGED <<search, txn, disk, store, commits>>

\* Line 131: fail() in the catch of processFile; if it throws, processFile
\* rejects with that error.
FailJob(j) ==
    /\ Running(j) /\ task[j].pc = "fail"
    /\ \/ /\ ledger' = [ledger EXCEPT ![j] =
                           fail(@, ProcessingFailed(task[j].error), clock)]
          /\ task' = [task EXCEPT ![j].pc = "done"]
       \/ /\ task' = [task EXCEPT ![j] = [@ EXCEPT !.pc = "rejected", !.error = "ledger"]]
          /\ UNCHANGED ledger
    /\ Tick /\ NoCallMade
    /\ UNCHANGED <<search, txn, disk, store, commits>>

\* CatchHandler attached with finally() for catch(): it also runs when
\* processFile resolved.
CatchHandler_OnSettle(j) ==
    /\ Running(j) /\ task[j].pc \in {"rejected", "done"}
    /\ \/ /\ ledger' = [ledger EXCEPT ![j] =
                           fail(@, ProcessingFailed(task[j].error), clock)]
          /\ task' = [task EXCEPT ![j].pc = "handled"]
       \/ /\ task' = [task EXCEPT ![j].pc = "unhandled"]
          /\ UNCHANGED ledger
    /\ Tick /\ NoCallMade
    /\ UNCHANGED <<search, txn, disk, store, commits>>

\* Lines 35-38: the handler startIngestion attached to processFile's promise
\* calls fail() once more and awaits nothing.
CatchHandler(j) ==
    /\ Running(j) /\ task[j].pc = "rejected"
    /\ \/ /\ ledger' = [ledger EXCEPT ![j] =
                           fail(@, ProcessingFailed(task[j].error), clock)]
          /\ task' = [task EXCEPT ![j].pc = "done"]
       \/ /\ task' = [task EXCEPT ![j].pc = "unhandled"]
          /\ UNCHANGED ledger
    /\ Tick /\ NoCallMade
    /\ UNCHANGED <<search, txn, disk, store, commits>>

(* getJobStatus *)

\* A response field that is not there.
Absent == <<>>

\* The job ids a status request may carry: those of jobs, and one of no job.
StatusRequests == JobIds \cup {"ingest-job-0"}

\* getJobStatus with processedLines taken from the wrong column.
getJobStatus_WrongColumn(rows, jobId) ==
    IF jobId \notin DOMAIN rows
    THEN [error |-> "Job not found", body |-> Absent]
    ELSE LET job == rows[jobId]
         IN  [error |-> NULL,
              body  |-> [jobId          |-> job.job_id,
                         status         |-> job.status,
                         processedLines |-> job.total_lines,
                         errorLines     |-> job.error_lines,
                         totalLines     |-> job.total_lines,
                         errors         |-> job.errors,
                         startTime      |-> IF job.status = "COMPLETED"
                                            THEN job.start_time ELSE Absent,
                         endTime        |-> IF job.status = "COMPLETED"
                                            THEN job.end_time ELSE Absent]]

\* getJobStatus, given the rows findById selects from: 'Job not found' for
\* no row; else the response built from the row, with startTime and endTime
\* only for a COMPLETED job.
getJobStatus(rows, jobId) ==
    IF jobId \notin DOMAIN rows
    THEN [error |-> "Job not found", body |-> Absent]
    ELSE LET job == rows[jobId]
         IN  [error |-> NULL,
              body  |-> [jobId          |-> job.job_id,
                         status         |-> job.status,
                         processedLines |-> job.processed_lines,
                         errorLines     |-> job.error_lines,
                         totalLines     |-> job.total_lines,
                         errors         |-> job.errors,
                         startTime      |-> IF job.status = "COMPLETED"
                                            THEN job.start_time ELSE Absent,
                         endTime        |-> IF job.status = "COMPLETED"
                                            THEN job.end_time ELSE Absent]]

\* A getJobStatus call: findById answers, or its query fails and the error
\* is rethrown (lines 247-250).
GetJobStatus(jobId) ==
    /\ \/ reply' = [op |-> "getJobStatus", jobId |-> jobId,
                    result |-> getJobStatus(ledger, jobId)]
       \/ reply' = [op |-> "getJobStatus", jobId |-> jobId,
                    result |-> [error |-> "query failed", body |-> Absent]]
    /\ lastCall' = NoCall
    /\ UNCHANGED <<search, txn, disk, ledger, task, store, commits, clock>>

(* ------------------- the historical_events table ---------------------- *)

\* Timestamps are counted in ticks of 20 seconds: EXTRACT(EPOCH ...) / 60.
TicksPerMinute == 3

\* parent_event_id of an event without parent (data.parent_event_id || null).
NoParent == 0

EventIds == 1..MaxEventId

\* n / d rounded to the nearest integer, halves up (the INTEGER cast of the
\* generated column, and Math.round).
Round(n, d) == (2 * n + d) \div (2 * d)

\* The stored row of an event: its columns and the generated duration_minutes.
Row(e) ==
    [event_id         |-> e.event_id,
     parent_event_id  |-> e.parent_event_id,
     start_date       |-> e.start_date,
     end_date         |-> e.end_date,
     duration_minutes |-> Round(e.end_date - e.start_date, TicksPerMinute)]

IdsOf(rows) == {r.event_id : r \in rows}

\* The constraint an INSERT of e violates, given the rows it sees: the CHECK
\* on the dates, the primary key, the foreign key to the parent (which the
\* row itself satisfies); NULL for none.
Violation(rows, e) ==
    CASE ~(e.end_date > e.start_date) -> "chk_date_order"
      [] e.event_id \in IdsOf(rows) -> "historical_events_pkey"
      [] /\ e.parent_event_id # NoParent
         /\ e.parent_event_id \notin IdsOf(rows) \cup {e.event_id}
            -> "historical_events_parent_event_id_fkey"
      [] OTHER -> NULL

\* HistoricalEvent.create: one INSERT, outside any transaction. The reply
\* tells whether the row was returned or which constraint rejected it.
Create(e) ==
    /\ ~txn.open
    /\ LET v == Violation(store, e)
       IN  /\ store' = IF v = NULL THEN store \cup {Row(e)} ELSE store
           /\ reply' = [op |-> "create", error |-> v]
    /\ lastCall' = NoCall
    /\ UNCHANGED <<search, txn, disk, ledger, task, commits, clock>>

\* bulkCreate([]) returns [] without a transaction.
BulkCreateNone ==
    /\ ~txn.open
    /\ reply' = [op |-> "bulkCreate", error |-> NULL, events |-> {}]
    /\ lastCall' = NoCall
    /\ UNCHANGED <<search, txn, disk, ledger, task, store, commits, clock>>

\* bulkCreate(events) with events: transaction() begins.
BulkCreateBegin ==
    /\ ~txn.open
    /\ txn' = [open |-> TRUE, rows |-> {}, events |-> {}]
    /\ NoCallMade
    /\ UNCHANGED <<search, disk, ledger, task, store, commits, clock>>

\* BulkCreateInsert with the catch of lines 460-463 not rethrowing: the
\* loop goes on after a rejected INSERT.
BulkCreateInsert_Swallow(e) ==
    /\ txn.open
    /\ Cardinality(txn.events) < MaxBatch
    /\ LET v == Violation(store \cup txn.rows, e)
       IN  txn' = [txn EXCEPT !.rows = IF v = NULL THEN @ \cup {Row(e)} ELSE @,
                              !.events = @ \cup {e}]
    /\ NoCallMade
    /\ UNCHANGED <<search, disk, ledger, task, store, commits, clock>>

\* The next INSERT of the loop: it sees the store and the rows of its own
\* transaction. A rejected INSERT is rethrown, and transaction() rolls back.
BulkCreateInsert(e) ==
    /\ txn.open
    /\ Cardinality(txn.events) < MaxBatch
    /\ LET v == Violation(store \cup txn.rows, e)
       IN  IF v = NULL
           THEN /\ txn' = [txn EXCEPT !.rows = @ \cup {Row(e)},
                                      !.events = @ \cup {e}]
                /\ store' = store
                /\ reply' = NoReply
           ELSE /\ txn' = NoTxn
                /\ store' = transaction(store, txn.rows, FALSE)
                /\ reply' = [op |-> "bulkCreate", error |-> v,
                             events |-> txn.events \cup {e}]
    /\ lastCall' = NoCall
    /\ UNCHANGED <<search, disk, ledger, task, commits, clock>>

\* The loop is over: transaction() commits, or the COMMIT fails.
BulkCreateCommit ==
    /\ txn.open
    /\ txn.events # {}
    /\ \E ok \in BOOLEAN :
          /\ store' = transaction(store, txn.rows, ok)
          /\ reply' = [op |-> "bulkCreate",
                       error |-> IF ok THEN NULL ELSE "commit failed",
                       events |-> txn.events]
    /\ txn' = NoTxn
    /\ lastCall' = NoCall
    /\ UNCHANGED <<search, disk, ledger, task, commits, clock>>

(* ---------------------- findShortestPath ------------------------------ *)

\* The orders in which SELECT ... FROM historical_events may return rows.
Orders(rows) ==
    {o \in [1..Cardinality(rows) -> rows] :
        \A i, k \in 1..Cardinality(rows) : o[i] = o[k] => i = k}

\* Children with the edges laid from child to parent.
Children_ToParent(events, id) ==
    LET self == SelectSeq(events, LAMBDA r :
                    r.event_id = id /\ r.parent_event_id # NoParent)
    IN  [i \in 1..Len(self) |-> self[i].parent_event_id]

\* graph.get(id): the children of id, in the order of the rows.
Children(events, id) ==
    LET kids == SelectSeq(events, LAMBDA r :
                    r.parent_event_id # NoParent /\ r.parent_event_id = id)
    IN  [i \in 1..Len(kids) |-> kids[i].event_id]

\* eventDetails.get(id).duration_minutes
durationOf(events, id) ==
    (CHOOSE r \in SeqToSet(events) : r.event_id = id).duration_minutes

RECURSIVE InsertSorted(_, _)
InsertSorted(q, x) ==
    IF q = <<>> THEN <<x>>
    ELSE IF x.distance < Head(q).distance THEN <<x>> \o q
    ELSE <<Head(q)>> \o InsertSorted(Tail(q), x)

RECURSIVE SortQueue(_)
\* queue.sort((a, b) => a.distance - b.distance), which is stable.
SortQueue(q) ==
    IF q = <<>> THEN <<>>
    ELSE InsertSorted(SortQueue(SubSeq(q, 1, Len(q) - 1)), q[Len(q)])

RECURSIVE Relax(_, _, _, _)
\* The loop over the neighbours of current (lines 381-392). A distance of
\* Infinity is an id outside DOMAIN distances.
Relax(events, st, current, neighbors) ==
    IF neighbors = <<>> THEN st
    ELSE LET neighborId == Head(neighbors)
             newDistance == st.distances[current] + durationOf(events, neighborId)
             st1 == IF neighborId \in st.visited THEN st
                    ELSE IF \/ neighborId \notin DOMAIN st.distances
                            \/ newDistance < st.distances[neighborId]
                    THEN [st EXCEPT
                            !.distances = (neighborId :> newDistance) @@ @,
                            !.previous = (neighborId :> current) @@ @,
                            !.queue = Append(@, [eventId |-> neighborId,
                                                 distance |-> newDistance])]
                    ELSE st
         IN  Relax(events, st1, current, Tail(neighbors))

RECURSIVE Dijkstra(_, _, _)
\* The while loop of lines 369-393.
Dijkstra(events, st, targetEventId) ==
    IF st.queue = <<>> THEN st
    ELSE LET queue == SortQueue(st.queue)
             current == Head(queue)
         IN  IF current.eventId \in st.visited
             THEN Dijkstra(events, [st EXCEPT !.queue = Tail(queue)], targetEventId)
             ELSE LET st1 == [st EXCEPT !.queue = Tail(queue),
                                        !.visited = @ \cup {current.eventId}]
                  IN  IF current.eventId = targetEventId THEN st1
                      ELSE Dijkstra(events,
                                    Relax(events, st1, current.eventId,
                                          Children(events, current.eventId)),
                                    targetEventId)

RECURSIVE PathTo(_, _, _)
\* The path rebuilt from previous, ending at id (lines 406-417).
PathTo(events, previous, id) ==
    LET node == [event_id |-> id, duration_minutes |-> durationOf(events, id)]
    IN  IF id \in DOMAIN previous
        THEN Append(PathTo(events, previous, previous[id]), node)
        ELSE <<node>>

RECURSIVE SumDurations(_)
\* path.reduce((sum, event) => sum + event.duration_minutes, 0)
SumDurations(path) ==
    IF path = <<>> THEN 0
    ELSE Head(path).duration_minutes + SumDurations(Tail(path))

NoPathMessage == "No temporal path found from source to target event."
PathMessage == "Shortest temporal path found from source to target event."

\* findShortestPath over the rows the query returned. Rebuilding the path
\* of a target that is no event throws a TypeError (line 412).
findShortestPath(events, sourceEventId, targetEventId) ==
    LET st == Dijkstra(events,
                       [distances |-> (sourceEventId :> 0),
                        previous  |-> <<>>,
                        visited   |-> {},
                        queue     |-> <<[eventId |-> sourceEventId, distance |-> 0]>>],
                       targetEventId)
    IN  IF targetEventId \notin DOMAIN st.previous /\ sourceEventId # targetEventId
        THEN [error |-> NULL, shortestPath |-> <<>>, totalDurationMinutes |-> 0,
              message |-> NoPathMessage]
        ELSE IF targetEventId \notin IdsOf(SeqToSet(events))
        THEN [error |-> "TypeError", shortestPath |-> <<>>,
              totalDurationMinutes |-> 0, message |-> NULL]
        ELSE LET path == PathTo(events, st.previous, targetEventId)
             IN  [error |-> NULL, shortestPath |-> path,
                  totalDurationMinutes |-> SumDurations(path),
                  message |-> PathMessage]

\* The query of findShortestPath failed, and the error is rethrown.
QueryFailed ==
    [error |-> "query failed", shortestPath |-> <<>>, totalDurationMinutes |-> 0,
     message |-> NULL]

\* A findShortestPath call.
FindShortestPath(sourceEventId, targetEventId) ==
    /\ \/ \E events \in Orders(store) :
             reply' = [op |-> "findShortestPath",
                       sourceEventId |-> sourceEventId,
                       targetEventId |-> targetEventId,
                       result |-> findShortestPath(events, sourceEventId,
                                                   targetEventId)]
       \/ reply' = [op |-> "findShortestPath",
                    sourceEventId |-> sourceEventId,
                    targetEventId |-> targetEventId,
                    result |-> QueryFailed]
    /\ lastCall' = NoCall
    /\ UNCHANGED <<search, txn, disk, ledger, task, store, commits, clock>>

(* ------------- findShortestPath, iteration by iteration --------------- *)

\* previous.get(id) of an id without entry.
undefined == 0

\* The locals when the query has returned and the loop is reached (lines
\* 335-367).
SearchLocals(sourceEventId, targetEventId, events) ==
    [pc             |-> "while",
     sourceEventId  |-> sourceEventId,
     targetEventId  |-> targetEventId,
     events         |-> events,
     st             |-> [distances |-> (sourceEventId :> 0),
                         previous  |-> <<>>,
                         visited   |-> {},
                         queue     |-> <<[eventId |-> sourceEventId,
                                          distance |-> 0]>>],
     path           |-> <<>>,
     currentEventId |-> undefined]

\* The call is made and its query returns the rows in some order.
SearchBegin(sourceEventId, targetEventId) ==
    /\ search.pc = "none"
    /\ \E events \in Orders(store) :
          search' = SearchLocals(sourceEventId, targetEventId, events)
    /\ NoCallMade
    /\ UNCHANGED <<txn, disk, ledger, task, store, commits, clock>>

\* SearchLoop with queue[0] for queue.shift(): the entry stays in the queue.
SearchLoop_NoShift ==
    /\ search.pc = "while"
    /\ LET st    == search.st
           queue == SortQueue(st.queue)
       IN  IF st.queue = <<>>
           THEN search' = [search EXCEPT !.pc = "rebuild"]
           ELSE LET current == Head(queue)
                    st0 == [st EXCEPT !.queue = queue]
                IN  IF current.eventId \in st.visited
                    THEN search' = [search EXCEPT !.st = st0]
                    ELSE LET st1 == [st0 EXCEPT !.visited = @ \cup {current.eventId}]
                         IN  IF current.eventId = search.targetEventId
                             THEN search' = [search EXCEPT !.st = st1,
                                                           !.pc = "rebuild"]
                             ELSE search' = [search EXCEPT !.st =
                                    Relax(search.events, st1, current.eventId,
                                          Children(search.events, current.eventId))]
    /\ NoCallMade
    /\ UNCHANGED <<txn, disk, ledger, task, store, commits, clock>>

\* One test of `queue.length > 0` and, if it holds, one pass of the body of
\* the while loop (lines 369-393).
SearchLoop ==
    /\ search.pc = "while"
    /\ LET st    == search.st
           queue == SortQueue(st.queue)
       IN  IF st.queue = <<>>
           THEN search' = [search EXCEPT !.pc = "rebuild"]
           ELSE LET current == Head(queue)
                    st0 == [st EXCEPT !.queue = Tail(queue)]
                IN  IF current.eventId \in st.visited
                    THEN search' = [search EXCEPT !.st = st0]
                    ELSE LET st1 == [st0 EXCEPT !.visited = @ \cup {current.eventId}]
                         IN  IF current.eventId = search.targetEventId
                             THEN search' = [search EXCEPT !.st = st1,
                                                           !.pc = "rebuild"]
                             ELSE search' = [search EXCEPT !.st =
                                    Relax(search.events, st1, current.eventId,
                                          Children(search.events, current.eventId))]
    /\ NoCallMade
    /\ UNCHANGED <<txn, disk, ledger, task, store, commits, clock>>

\* Lines 396-407: the no-path result is returned, or the path is begun at
\* the target.
Rebuild ==
    /\ search.pc = "rebuild"
    /\ IF /\ search.targetEventId \notin DOMAIN search.st.previous
          /\ search.sourceEventId # search.targetEventId
       THEN /\ reply' = [op |-> "findShortestPath",
                         sourceEventId |-> search.sourceEventId,
                         targetEventId |-> search.targetEventId,
                         result |-> [error |-> NULL, shortestPath |-> <<>>,
                                     totalDurationMinutes |-> 0,
                                     message |-> NoPathMessage]]
            /\ search' = NoSearch
       ELSE /\ reply' = NoReply
            /\ search' = [search EXCEPT !.pc = "path",
                                        !.currentEventId = search.targetEventId]
    /\ lastCall' = NoCall
    /\ UNCHANGED <<txn, disk, ledger, task, store, commits, clock>>

\* One test of `currentEventId !== undefined` and, if it holds, one pass of
\* the body of the second while loop (lines 409-417); when it does not hold,
\* the result is returned (lines 419-427). An id that is no event throws a
\* TypeError at line 412.
PathLoop ==
    /\ search.pc = "path"
    /\ LET id == search.currentEventId
       IN  IF id = undefined
           THEN /\ reply' = [op |-> "findShortestPath",
                             sourceEventId |-> search.sourceEventId,
                             targetEventId |-> search.targetEventId,
                             result |-> [error |-> NULL,
                                         shortestPath |-> search.path,
                                         totalDurationMinutes |->
                                            SumDurations(search.path),
                                         message |-> PathMessage]]
                /\ search' = NoSearch
           ELSE IF id \notin IdsOf(SeqToSet(search.events))
           THEN /\ reply' = [op |-> "findShortestPath",
                             sourceEventId |-> search.sourceEventId,
                             targetEventId |-> search.targetEventId,
                             result |-> [error |-> "TypeError",
                                         shortestPath |-> <<>>,
                                         totalDurationMinutes |-> 0,
                                         message |-> NULL]]
                /\ search' = NoSearch
           ELSE /\ reply' = NoReply
                /\ search' = [search EXCEPT
                      !.path = <<[event_id |-> id,
                                  duration_minutes |->
                                     durationOf(search.events, id)]>> \o @,
                      !.currentEventId =
                         IF id \in DOMAIN search.st.previous
                         THEN search.st.previous[id] ELSE undefined]
    /\ lastCall' = NoCall
    /\ UNCHANGED <<txn, disk, ledger, task, store, commits, clock>>

(* ------------------- GET /api/insights/event-influence ----------------- *)

\* A query parameter that is no UUID.
NotUuid == 0

RequestIds == {NotUuid} \cup EventIds

\* The response of the route, and whether findShortestPath was called.
Response(s, t, status, error, ran, body) ==
    [op |-> "event-influence", sourceEventId |-> s, targetEventId |-> t,
     status |-> status, error |-> error, ran |-> ran, body |-> body]

\* EventInfluence without the check of lines 79-84.
EventInfluence_NoSameCheck(s, t) ==
    /\ IF s = NotUuid \/ t = NotUuid
       THEN reply' = Response(s, t, 400, "Validation Error", FALSE, QueryFailed)
       ELSE \/ \E events \in Orders(store) :
                 LET influence == findShortestPath(events, s, t)
                 IN  reply' = IF influence.error = NULL
                              THEN Response(s, t, 200, NULL, TRUE, influence)
                              ELSE Response(s, t, 500, "Internal Server Error",
                                            TRUE, influence)
            \/ reply' = Response(s, t, 500, "Internal Server Error", TRUE,
                                 QueryFailed)
    /\ lastCall' = NoCall
    /\ UNCHANGED <<search, txn, disk, ledger, task, store, commits, clock>>

\* GET /event-influence: 400 for a parameter that is no UUID, 400 for equal
\* ids, else the result of findShortestPath, or 500 when it throws.
EventInfluence(s, t) ==
    /\ IF s = NotUuid \/ t = NotUuid
       THEN reply' = Response(s, t, 400, "Validation Error", FALSE, QueryFailed)
       ELSE IF s = t
       THEN reply' = Response(s, t, 400, "Validation Error", FALSE, QueryFailed)
       ELSE \/ \E events \in Orders(store) :
                 LET influence == findShortestPath(events, s, t)
                 IN  reply' = IF influence.error = NULL
                              THEN Response(s, t, 200, NULL, TRUE, influence)
                              ELSE Response(s, t, 500, "Internal Server Error",
                                            TRUE, influence)
            \/ reply' = Response(s, t, 500, "Internal Server Error", TRUE,
                                 QueryFailed)
    /\ lastCall' = NoCall
    /\ UNCHANGED <<search, txn, disk, ledger, task, store, commits, clock>>

(* ---------------------- findOverlappingEvents ------------------------- *)

Least(a, b) == IF a < b THEN a ELSE b
Greatest(a, b) == IF a > b THEN a ELSE b

\* LEAST(e1.end_date, e2.end_date) - GREATEST(e1.start_date, e2.start_date),
\* in ticks.
overlapDuration(e1, e2) ==
    Least(e1.end_date, e2.end_date) - Greatest(e1.start_date, e2.start_date)

\* The join condition with <> for <.
JoinOn_NotEqual(e1, e2) == e1.event_id # e2.event_id

\* INNER JOIN historical_events e2 ON e1.event_id < e2.event_id
JoinOn(e1, e2) == e1.event_id < e2.event_id

\* The WHERE clause with <= for < and >= for >.
Where_Touching(e1, e2) ==
    /\ e1.start_date <= e2.end_date
    /\ e2.start_date <= e1.end_date
    /\ overlapDuration(e1, e2) >= 0

\* The WHERE clause of lines 225-229.
Where(e1, e2) ==
    /\ e1.start_date < e2.end_date
    /\ e2.start_date < e1.end_date
    /\ overlapDuration(e1, e2) > 0

\* The rows the query selects, with overlap the exact duration in ticks.
OverlapRows(rows) ==
    {[event1 |-> p[1], event2 |-> p[2], overlap |-> overlapDuration(p[1], p[2])] :
        p \in {q \in rows \X rows : JoinOn(q[1], q[2]) /\ Where(q[1], q[2])}}

RECURSIVE OrderedDesc(_)
\* ORDER BY overlap_duration_minutes DESC: every order of the rows with the
\* longer overlap first.
OrderedDesc(rows) ==
    IF rows = {} THEN {<<>>}
    ELSE LET first == {r \in rows : \A o \in rows : r.overlap >= o.overlap}
         IN  UNION {{<<r>> \o rest : rest \in OrderedDesc(rows \ {r})} :
                      r \in first}

\* An event as the response shows it.
Shown(e) ==
    [event_id |-> e.event_id, start_date |-> e.start_date, end_date |-> e.end_date]

\* result.rows.map(...): the pair, and Math.round of the minutes.
findOverlappingEvents(resultRows) ==
    [i \in 1..Len(resultRows) |->
        [overlappingEventPairs |-> <<Shown(resultRows[i].event1),
                                    Shown(resultRows[i].event2)>>,
         overlap_duration_minutes |-> Round(resultRows[i].overlap, TicksPerMinute)]]

\* FindOverlappingEvents reading the rows of an open transaction too.
FindOverlappingEvents_Dirty ==
    /\ \/ \E resultRows \in OrderedDesc(OverlapRows(store \cup txn.rows)) :
             reply' = [op |-> "findOverlappingEvents", error |-> NULL,
                       rows |-> resultRows,
                       result |-> findOverlappingEvents(resultRows)]
       \/ reply' = [op |-> "findOverlappingEvents", error |-> "query failed",
                    rows |-> <<>>, result |-> <<>>]
    /\ lastCall' = NoCall
    /\ UNCHANGED <<search, txn, disk, ledger, task, store, commits, clock>>

\* A findOverlappingEvents call: the query answers, or fails and is rethrown.
FindOverlappingEvents ==
    /\ \/ \E resultRows \in OrderedDesc(OverlapRows(store)) :
             reply' = [op |-> "findOverlappingEvents", error |-> NULL,
                       rows |-> resultRows,
                       result |-> findOverlappingEvents(resultRows)]
       \/ reply' = [op |-> "findOverlappingEvents", error |-> "query failed",
                    rows |-> <<>>, result |-> <<>>]
    /\ lastCall' = NoCall
    /\ UNCHANGED <<search, txn, disk, ledger, task, store, commits, clock>>

(* ------------------------- findTemporalGaps --------------------------- *)

\* The WHERE clause of ordered_events with > for >= and < for <=.
InWindow_Strict(e, startDate, endDate) ==
    e.start_date > startDate /\ e.end_date < endDate

\* WHERE start_date >= $1 AND end_date <= $2
InWindow(e, startDate, endDate) ==
    e.start_date >= startDate /\ e.end_date <= endDate

\* ORDER BY start_date: every order of the rows with no later start before
\* an earlier one; rows of equal start come in any order.
OrderedByStart(rows) ==
    {o \in Orders(rows) :
        \A i, k \in 1..Len(o) : i < k => o[i].start_date <= o[k].start_date}

\* The rows of the gaps CTE. LAG(...) OVER (ORDER BY start_date) is the value
\* of the row before; the first row has none, its gap_start is NULL and the
\* row fails gap_start IS NOT NULL. gap is start_date - LAG(end_date), in
\* ticks.
Gaps(ordered) ==
    {[gap_start |-> ordered[i - 1].end_date,
      gap_end |-> ordered[i].start_date,
      preceding_event_id |-> ordered[i - 1].event_id,
      preceding_end_date |-> ordered[i - 1].end_date,
      succeeding_event_id |-> ordered[i].event_id,
      succeeding_start_date |-> ordered[i].start_date,
      gap |-> ordered[i].start_date - ordered[i - 1].end_date] :
        i \in 2..Len(ordered)}

\* The last WHERE clause with >= for >.
GapWhere_NotNegative(g) == g.gap >= 0

\* AND gap_duration_minutes > 0
GapWhere(g) == g.gap > 0

\* ORDER BY gap_duration_minutes DESC LIMIT 1: no row, or one row of the
\* longest gap.
GapQuery(rows, startDate, endDate) ==
    LET window == {e \in rows : InWindow(e, startDate, endDate)}
        found(ordered) == {g \in Gaps(ordered) : GapWhere(g)}
        first(gaps) == {g \in gaps : \A o \in gaps : g.gap >= o.gap}
    IN  UNION {IF found(ordered) = {} THEN {<<>>}
               ELSE {<<g>> : g \in first(found(ordered))} :
                  ordered \in OrderedByStart(window)}

NoGapMessage ==
    "No significant temporal gaps found within the specified range, or too few events."
GapMessage == "Largest temporal gap identified."

\* largestGap: null
NoLargestGap ==
    [startOfGap |-> 0, endOfGap |-> 0, durationMinutes |-> 0,
     precedingEvent |-> [event_id |-> 0, end_date |-> 0],
     succeedingEvent |-> [event_id |-> 0, start_date |-> 0]]

\* The object findTemporalGaps returns for the rows of the query; largest
\* tells whether largestGap is an object.
findTemporalGaps(resultRows) ==
    IF Len(resultRows) = 0
    THEN [error |-> NULL, largest |-> FALSE, largestGap |-> NoLargestGap,
          message |-> NoGapMessage]
    ELSE LET gap == resultRows[1]
         IN  [error |-> NULL, largest |-> TRUE,
              largestGap |->
                 [startOfGap |-> gap.gap_start,
                  endOfGap |-> gap.gap_end,
                  durationMinutes |-> Round(gap.gap, TicksPerMinute),
                  precedingEvent |-> [event_id |-> gap.preceding_event_id,
                                      end_date |-> gap.preceding_end_date],
                  succeedingEvent |-> [event_id |-> gap.succeeding_event_id,
                                       start_date |-> gap.succeeding_start_date]],
              message |-> GapMessage]

\* The query of findTemporalGaps failed, and the error is rethrown.
GapQueryFailed ==
    [error |-> "query failed", largest |-> FALSE, largestGap |-> NoLargestGap,
     message |-> NULL]

\* A findTemporalGaps call.
FindTemporalGaps(startDate, endDate) ==
    /\ \/ \E resultRows \in GapQuery(store, startDate, endDate) :
             reply' = [op |-> "findTemporalGaps", startDate |-> startDate,
                       endDate |-> endDate,
                       result |-> findTemporalGaps(resultRows)]
       \/ reply' = [op |-> "findTemporalGaps", startDate |-> startDate,
                    endDate |-> endDate, result |-> GapQueryFailed]
    /\ lastCall' = NoCall
    /\ UNCHANGED <<search, txn, disk, ledger, task, store, commits, clock>>

(* -------------------- GET /api/insights/temporal-gaps ------------------ *)

\* A query parameter that is missing.
NoDate == -1

\* The dates a window is asked with: the first two and the last two.
GapDates == {0, 1, MaxGapTick - 1, MaxGapTick}

RequestDates == {NoDate} \cup GapDates

\* The response of the route, and whether findTemporalGaps was called.
GapResponse(startDate, endDate, status, error, ran, body) ==
    [op |-> "temporal-gaps", startDate |-> startDate, endDate |-> endDate,
     status |-> status, error |-> error, ran |-> ran, body |-> body]

\* TemporalGaps without the check of lines 47-52.
TemporalGaps_NoOrderCheck(startDate, endDate) ==
    /\ IF startDate = NoDate \/ endDate = NoDate
       THEN reply' = GapResponse(startDate, endDate, 400, "Validation Error",
                                 FALSE, GapQueryFailed)
       ELSE \/ \E resultRows \in GapQuery(store, startDate, endDate) :
                 reply' = GapResponse(startDate, endDate, 200, NULL, TRUE,
                                      findTemporalGaps(resultRows))
            \/ reply' = GapResponse(startDate, endDate, 500,
                                    "Internal Server Error", TRUE, GapQueryFailed)
    /\ lastCall' = NoCall
    /\ UNCHANGED <<search, txn, disk, ledger, task, store, commits, clock>>

\* GET /temporal-gaps: 400 for a missing date, 400 for a startDate that is
\* not before endDate, else the result of findTemporalGaps, or 500 when it
\* throws.
TemporalGaps(startDate, endDate) ==
    /\ IF startDate = NoDate \/ endDate = NoDate
       THEN reply' = GapResponse(startDate, endDate, 400, "Validation Error",
                                 FALSE, GapQueryFailed)
       ELSE IF startDate >= endDate
       THEN reply' = GapResponse(startDate, endDate, 400, "Validation Error",
                                 FALSE, GapQueryFailed)
       ELSE \/ \E resultRows \in GapQuery(store, startDate, endDate) :
                 reply' = GapResponse(startDate, endDate, 200, NULL, TRUE,
                                      findTemporalGaps(resultRows))
            \/ reply' = GapResponse(startDate, endDate, 500,
                                    "Internal Server Error", TRUE, GapQueryFailed)
    /\ lastCall' = NoCall
    /\ UNCHANGED <<search, txn, disk, ledger, task, store, commits, clock>>

(* ------------------- getTimeline, buildHierarchy ---------------------- *)

\* The join of the recursive term taken from parent to child.
JoinHierarchy_Up(he, eh) == eh.parent_event_id = he.event_id

\* INNER JOIN event_hierarchy eh ON he.parent_event_id = eh.event_id
JoinHierarchy(he, eh) == he.parent_event_id = eh.event_id

RECURSIVE LevelRows(_, _, _)
\* The rows of event_hierarchy with the given level: the row of the id for
\* level 0, and for a higher level the rows joined to those of the level
\* below (UNION ALL, so a row met again is added again).
LevelRows(rows, rootEventId, level) ==
    IF level = 0 THEN {r \in rows : r.event_id = rootEventId}
    ELSE {he \in rows :
            \E eh \in LevelRows(rows, rootEventId, level - 1) :
                JoinHierarchy(he, eh)}

\* The recursion ends when a level has no row. It has not ended after as
\* many levels as the table has rows only if a row has come back, and then
\* every further level has a row.
RecursionEnds(rows, rootEventId) ==
    LevelRows(rows, rootEventId, Cardinality(rows)) = {}

RECURSIVE HierarchyFrom(_, _, _)
\* SELECT * FROM event_hierarchy ORDER BY level, start_date, from a level
\* on: every such order of the rows.
HierarchyFrom(rows, rootEventId, level) ==
    LET here == LevelRows(rows, rootEventId, level)
    IN  IF here = {} THEN {<<>>}
        ELSE {a \o b : a \in OrderedByStart(here),
                       b \in HierarchyFrom(rows, rootEventId, level + 1)}

\* What getTimeline gives for null.
NoTree == [event_id |-> 0, parent_event_id |-> NoParent, children |-> <<>>]

RECURSIVE Node(_, _)
\* eventMap.get(id) when the two forEach loops are done: the event and its
\* children, the events naming it as parent in the order of the rows. The
\* rows of a query that ended hold no event twice and no cycle.
Node(events, id) ==
    LET self == SelectSeq(events, LAMBDA e : e.event_id = id)
        kids == SelectSeq(events, LAMBDA e :
                    e.parent_event_id # NoParent /\ e.parent_event_id = id)
    IN  [event_id |-> id,
         parent_event_id |-> self[Len(self)].parent_event_id,
         children |-> [i \in 1..Len(kids) |-> Node(events, kids[i].event_id)]]

\* buildHierarchy: null for no rows, else the node of the first row.
buildHierarchy(events) ==
    IF Len(events) = 0 THEN [error |-> NULL, found |-> FALSE, tree |-> NoTree]
    ELSE [error |-> NULL, found |-> TRUE,
          tree |-> Node(events, events[1].event_id)]

\* The query of getTimeline failed, and the error is rethrown.
TimelineFailed(error) == [error |-> error, found |-> FALSE, tree |-> NoTree]

\* The results a getTimeline call can have. A recursion that does not end
\* gives no rows: the statement runs until the server gives it up, and the
\* call throws then or does not return.
getTimeline(rows, rootEventId) ==
    {TimelineFailed("query failed")} \cup
    IF RecursionEnds(rows, rootEventId)
    THEN {buildHierarchy(events) : events \in HierarchyFrom(rows, rootEventId, 0)}
    ELSE {TimelineFailed("recursion does not end")}

\* A getTimeline call.
GetTimeline(rootEventId) ==
    /\ \E result \in getTimeline(store, rootEventId) :
          reply' = [op |-> "getTimeline", rootEventId |-> rootEventId,
                    result |-> result]
    /\ lastCall' = NoCall
    /\ UNCHANGED <<search, txn, disk, ledger, task, store, commits, clock>>

(* --------------------- GET /api/timeline/:rootEventId ------------------ *)

\* GET /timeline/:rootEventId: 400 for an id that is no UUID, 404 when
\* getTimeline gives null, else the tree, or 500 when it throws.
Timeline(rootEventId) ==
    /\ IF rootEventId = NotUuid
       THEN reply' = [op |-> "timeline", rootEventId |-> rootEventId,
                      status |-> 400, error |-> "Bad Request", ran |-> FALSE,
                      body |-> NoTree]
       ELSE \E timeline \in getTimeline(store, rootEventId) :
               reply' = [op |-> "timeline", rootEventId |-> rootEventId,
                         status |-> IF timeline.error # NULL THEN 500
                                    ELSE IF ~timeline.found THEN 404 ELSE 200,
                         error |-> IF timeline.error # NULL
                                   THEN "Internal Server Error"
                                   ELSE IF ~timeline.found THEN "Not Found"
                                   ELSE NULL,
                         ran |-> TRUE,
                         body |-> timeline.tree]
    /\ lastCall' = NoCall
    /\ UNCHANGED <<search, txn, disk, ledger, task, store, commits, clock>>

(* ------------------------ parseLine, on text --------------------------- *)

\* The text of a line is a sequence of tokens: the delimiter, a blank, or a
\* word. A word is a string of the 8-4-4-4-12 hexadecimal shape (with its
\* version and variant digits), a timestamp, the word NULL in some case, or
\* any other text.
Token(kind, n, version, variant) ==
    [kind |-> kind, n |-> n, version |-> version, variant |-> variant]

Pipe == Token("|", 0, 0, 0)
Blank == Token(" ", 0, 0, 0)
Word == Token("text", 0, 0, 0)
NullWord(case) == Token("NULL", case, 0, 0)
DateWord(t) == Token("date", t, 0, 0)
HexWord(n, version, variant) == Token("uuid", n, version, variant)

\* a1b2c3d4-e5f6-7890-1234-567890abcdef: the third group begins with 7 and
\* the fourth with 1.
ReadmeId == HexWord(3, 7, 1)

RECURSIVE split(_)
\* line.split('|'): the fields between the delimiters; one empty field for
\* an empty line.
split(line) ==
    IF \A i \in 1..Len(line) : line[i] # Pipe THEN <<line>>
    ELSE LET i == CHOOSE i \in 1..Len(line) :
                     line[i] = Pipe /\ \A k \in 1..(i - 1) : line[k] # Pipe
         IN  <<SubSeq(line, 1, i - 1)>> \o split(SubSeq(line, i + 1, Len(line)))

RECURSIVE trim(_)
\* str.trim()
trim(str) ==
    IF str = <<>> THEN <<>>
    ELSE IF Head(str) = Blank THEN trim(Tail(str))
    ELSE IF str[Len(str)] = Blank THEN trim(SubSeq(str, 1, Len(str) - 1))
    ELSE str

\* /^[0-9a-f]{8}-[0-9a-f]{4}-[1-5][0-9a-f]{3}-[89ab][0-9a-f]{3}-[0-9a-f]{12}$/i
uuidRegex(str) ==
    /\ Len(str) = 1
    /\ str[1].kind = "uuid"
    /\ str[1].version \in 1..5
    /\ str[1].variant \in 8..11

isValidUUID(str) == uuidRegex(str)

\* !isNaN(new Date(str).getTime())
isDate(str) == Len(str) = 1 /\ str[1].kind = "date"

\* str.toUpperCase() === 'NULL'
isNullWord(str) == Len(str) = 1 /\ str[1].kind = "NULL"

\* parentEventId = null
NoParentId == <<>>

NoDraftText ==
    [event_id |-> <<>>, event_name |-> <<>>, description |-> <<>>,
     start_date |-> 0, end_date |-> 0, parent_event_id |-> NoParentId,
     source_file |-> NULL, line_number |-> 0]

Skipped == [outcome |-> "null", error |-> NULL, got |-> 0, draft |-> NoDraftText]
Thrown(error, got) ==
    [outcome |-> "throw", error |-> error, got |-> got, draft |-> NoDraftText]

\* The field count test with >= for ===.
fieldCountOk_AtLeast(parts) == Len(parts) >= 6

\* parts.length !== 6 does not hold.
fieldCountOk(parts) == Len(parts) = 6

\* The date comparison left out.
datesInOrder_Unchecked(startDateObj, endDateObj) == startDateObj = startDateObj

\* startDateObj >= endDateObj does not hold.
datesInOrder(startDateObj, endDateObj) == ~(startDateObj >= endDateObj)

\* The parent test with only the exact word NULL taken for no parent.
hasParent_ExactNull(parentIdTrimmed) ==
    parentIdTrimmed # <<>> /\ parentIdTrimmed # <<NullWord(0)>>

\* parentIdTrimmed && parentIdTrimmed.toUpperCase() !== 'NULL'
hasParent(parentIdTrimmed) ==
    parentIdTrimmed # <<>> /\ ~isNullWord(parentIdTrimmed)

\* parseLine on the text of a line (lines 160-216): null for a blank line, a
\* throw with its message for a line that fails a check, else the draft.
parseLineText(line, lineNumber, filePath) ==
    IF trim(line) = <<>> THEN Skipped
    ELSE LET parts == split(line) IN
    IF ~fieldCountOk(parts) THEN Thrown("Malformed entry", Len(parts))
    ELSE IF ~isValidUUID(trim(parts[1])) THEN Thrown("Invalid UUID format", 6)
    ELSE IF ~isDate(trim(parts[3])) THEN Thrown("Invalid start date format", 6)
    ELSE IF ~isDate(trim(parts[4])) THEN Thrown("Invalid end date format", 6)
    ELSE IF ~datesInOrder(trim(parts[3])[1].n, trim(parts[4])[1].n)
    THEN Thrown("Start date must be before end date", 6)
    ELSE LET parentIdTrimmed == trim(parts[5]) IN
    IF hasParent(parentIdTrimmed) /\ ~isValidUUID(parentIdTrimmed)
    THEN Thrown("Invalid parent UUID format", 6)
    ELSE [outcome |-> "draft", error |-> NULL, got |-> 6,
          draft |-> [event_id        |-> trim(parts[1]),
                     event_name      |-> trim(parts[2]),
                     description     |-> trim(parts[6]),
                     start_date      |-> trim(parts[3])[1].n,
                     end_date        |-> trim(parts[4])[1].n,
                     parent_event_id |-> IF hasParent(parentIdTrimmed)
                                         THEN parentIdTrimmed ELSE NoParentId,
                     source_file     |-> filePath,
                     line_number     |-> lineNumber]]

\* The event bulkCreate inserts for a draft.
EventOfDraft(draft) ==
    [event_id        |-> draft.event_id[1].n,
     parent_event_id |-> IF draft.parent_event_id = NoParentId THEN NoParent
                         ELSE draft.parent_event_id[1].n,
     start_date      |-> draft.start_date,
     end_date        |-> draft.end_date]

\* The line of the one-line file on disk.
TheLine == disk["events.txt"].lines[1]

\* parseLine is applied to the line.
ParseLine ==
    /\ reply' = [op |-> "parseLine", line |-> TheLine,
                 result |-> parseLineText(TheLine, 1, "events.txt")]
    /\ lastCall' = NoCall
    /\ UNCHANGED <<search, txn, disk, ledger, task, store, commits, clock>>

\* The draft of the line, pushed to the batch at line 78, is inserted by
\* bulkCreate.
InsertDraft ==
    LET r == parseLineText(TheLine, 1, "events.txt")
    IN  r.outcome = "draft" /\ BulkCreateInsert(EventOfDraft(r.draft))

(* --------------------------- specification ----------------------------- *)

Init ==
    /\ \E lines \in Files :
          disk = [p \in Paths |-> IF p = "missing.txt" THEN NoFile ELSE File(lines)]
    /\ ledger = <<>>
    /\ task = <<>>
    /\ commits = <<>>
    /\ store = {}
    /\ lastCall = NoCall
    /\ clock = 0
    /\ txn = NoTxn
    /\ reply = NoReply
    /\ search = NoSearch

Next ==
    \/ \E p \in Paths : StartIngestionFails(p)
    \/ \E p \in Paths, j \in JobIds : StartIngestionOk(p, j)
    \/ \E j \in JobIds : CountLines(j)
    \/ \E j \in JobIds : SetTotalLines(j)
    \/ \E j \in JobIds : ReadLine(j)
    \/ \E j \in JobIds : AddError(j)
    \/ \E j \in JobIds : CommitBatch(j)
    \/ \E j \in JobIds : FlushProgress(j)
    \/ \E j \in JobIds : CommitTail(j)
    \/ \E j \in JobIds : Complete(j)
    \/ \E j \in JobIds : FailJob(j)
    \/ \E j \in JobIds : CatchHandler(j)
    \/ \E j \in StatusRequests : GetJobStatus(j)

Spec == Init /\ [][Next]_vars

\* Two jobs: startIngestion is called twice for the file, and the two
\* background tasks take their steps in any order.
ConcurrentJobIds == {"ingest-job-1", "ingest-job-2"}

ConcurrentInit ==
    /\ \E lines \in SeqsUpTo(LineKinds, MaxConcurrentLines) :
          disk = [p \in Paths |-> IF p = "missing.txt" THEN NoFile ELSE File(lines)]
    /\ ledger = <<>>
    /\ task = <<>>
    /\ commits = <<>>
    /\ store = {}
    /\ lastCall = NoCall
    /\ clock = 0
    /\ txn = NoTxn
    /\ reply = NoReply
    /\ search = NoSearch

ConcurrentNext ==
    \/ \E p \in Paths, j \in ConcurrentJobIds : StartIngestionOk(p, j)
    \/ \E j \in ConcurrentJobIds : CountLines(j)
    \/ \E j \in ConcurrentJobIds : SetTotalLines(j)
    \/ \E j \in ConcurrentJobIds : ReadLine(j)
    \/ \E j \in ConcurrentJobIds : AddError(j)
    \/ \E j \in ConcurrentJobIds : CommitBatch(j)
    \/ \E j \in ConcurrentJobIds : FlushProgress(j)
    \/ \E j \in ConcurrentJobIds : CommitTail(j)
    \/ \E j \in ConcurrentJobIds : Complete(j)
    \/ \E j \in ConcurrentJobIds : FailJob(j)
    \/ \E j \in ConcurrentJobIds : CatchHandler(j)

ConcurrentSpec == ConcurrentInit /\ [][ConcurrentNext]_vars

\* The events of the store specification: every id with every parent, one
\* start and an end at or after it.
StoreEvents ==
    [event_id : EventIds, parent_event_id : {NoParent} \cup EventIds,
     start_date : {1}, end_date : {1, 1 + TicksPerMinute}]

\* No job runs: the table is written by create and bulkCreate calls.
Idle ==
    /\ disk = [p \in Paths |-> NoFile]
    /\ ledger = <<>>
    /\ task = <<>>
    /\ commits = <<>>
    /\ lastCall = NoCall
    /\ clock = 0
    /\ txn = NoTxn
    /\ reply = NoReply
    /\ search = NoSearch

StoreInit == Idle /\ store = {}

StoreNext ==
    \/ \E e \in StoreEvents : Create(e)
    \/ BulkCreateNone
    \/ BulkCreateBegin
    \/ \E e \in StoreEvents : BulkCreateInsert(e)
    \/ BulkCreateCommit

StoreSpec == StoreInit /\ [][StoreNext]_vars

\* The events of the graph specification: every id with every parent,
\* lasting 10 or 20 minutes.
GraphEvents ==
    [event_id : EventIds, parent_event_id : {NoParent} \cup EventIds,
     start_date : {0}, end_date : {10 * TicksPerMinute, 20 * TicksPerMinute}]

GraphInit == Idle /\ store = {}

GraphNext ==
    \/ \E e \in GraphEvents : Create(e)
    \/ \E s, t \in EventIds : FindShortestPath(s, t)
    \/ \E s, t \in RequestIds : EventInfluence(s, t)

GraphSpec == GraphInit /\ [][GraphNext]_vars

\* The events of the overlap specification: every id without parent, with
\* every start and end of 0..MaxTick.
OverlapEvents ==
    [event_id : EventIds, parent_event_id : {NoParent},
     start_date : 0..MaxTick, end_date : 0..MaxTick]

OverlapInit == Idle /\ store = {}

OverlapNext ==
    \/ \E e \in OverlapEvents : Create(e)
    \/ FindOverlappingEvents

OverlapSpec == OverlapInit /\ [][OverlapNext]_vars

RECURSIVE Join(_)
\* The line made of fields, with a delimiter between each two.
Join(fields) ==
    IF fields = <<>> THEN <<>>
    ELSE IF Len(fields) = 1 THEN fields[1]
    ELSE fields[1] \o <<Pipe>> \o Join(Tail(fields))

IdFields ==
    {<<HexWord(1, 4, 8)>>, <<Blank, HexWord(1, 4, 8), Blank>>, <<ReadmeId>>,
     <<Word>>, <<>>}
NameFields == {<<Word>>, <<Word, Blank, Word>>, <<>>, <<Blank>>}
DateFields == {<<DateWord(t)>> : t \in 0..MaxDate} \cup {<<Word>>, <<>>}
ParentFields ==
    {<<>>, <<Blank>>, <<NullWord(0)>>, <<NullWord(1)>>, <<Blank, NullWord(1)>>,
     <<HexWord(2, 4, 8)>>, <<HexWord(1, 4, 8)>>, <<ReadmeId>>, <<Word>>}
DescriptionFields == {<<Word>>, <<>>}

\* The lines of the parser specification: every line of six fields drawn
\* from the sets above, such a line with further fields, lines of words only,
\* and lines of blanks only.
ParserLines ==
    LET six == {<<a, b, c, d, e, f>> :
                    a \in IdFields, b \in NameFields, c \in DateFields,
                    d \in DateFields, e \in ParentFields, f \in DescriptionFields}
        more == {<<<<HexWord(1, 4, 8)>>, <<Word>>, <<DateWord(0)>>,
                   <<DateWord(MaxDate)>>, <<>>, <<Word>>>>
                    \o [i \in 1..k |-> <<Word>>] : k \in 1..(MaxFields - 6)}
        words == {[i \in 1..k |-> IF i = 1 THEN w ELSE <<Word>>] :
                    k \in 1..MaxFields, w \in {<<Word>>, <<HexWord(1, 4, 8)>>, <<>>}}
        blanks == {[i \in 1..k |-> Blank] : k \in 0..2}
    IN  {Join(fields) : fields \in six \cup more \cup words} \cup blanks

\* A file of one line is on disk; no job runs on it.
ParserInit ==
    /\ \E line \in ParserLines :
          disk = [p \in Paths |-> IF p = "missing.txt" THEN NoFile
                                  ELSE File(<<line>>)]
    /\ ledger = <<>>
    /\ task = <<>>
    /\ commits = <<>>
    /\ store = {}
    /\ lastCall = NoCall
    /\ clock = 0
    /\ txn = NoTxn
    /\ reply = NoReply
    /\ search = NoSearch

ParserNext ==
    \/ ParseLine
    \/ BulkCreateBegin
    \/ InsertDraft
    \/ BulkCreateCommit

ParserSpec == ParserInit /\ [][ParserNext]_vars

\* The events of the gap specification: every id without parent, starting
\* anywhere in 0..MaxGapTick and lasting one tick or all but two, as far as
\* they end within 0..MaxGapTick, and one event that ends when it starts.
GapEvents ==
    {e \in [event_id : EventIds, parent_event_id : {NoParent},
            start_date : 0..MaxGapTick, end_date : 0..MaxGapTick] :
        \/ e.end_date - e.start_date \in {1, MaxGapTick - 2}
        \/ e.start_date = 0 /\ e.end_date = 0}

GapInit == Idle /\ store = {}

GapNext ==
    \/ \E e \in GapEvents : Create(e)
    \/ \E startDate, endDate \in GapDates : FindTemporalGaps(startDate, endDate)
    \/ \E startDate, endDate \in RequestDates : TemporalGaps(startDate, endDate)

GapSpec == GapInit /\ [][GapNext]_vars

\* The events of the timeline specification: every id with every parent,
\* starting at 1 or 2 and lasting a minute.
TimelineEvents ==
    {e \in [event_id : EventIds, parent_event_id : {NoParent} \cup EventIds,
            start_date : {1, 2}, end_date : {1 + TicksPerMinute, 2 + TicksPerMinute}] :
        e.end_date = e.start_date + TicksPerMinute}

TimelineInit == Idle /\ store = {}

TimelineNext ==
    \/ \E e \in TimelineEvents : Create(e)
    \/ \E rootEventId \in EventIds : GetTimeline(rootEventId)
    \/ \E rootEventId \in RequestIds : Timeline(rootEventId)

TimelineSpec == TimelineInit /\ [][TimelineNext]_vars

\* The events of the snapshot specification: every id without parent or
\* with the first id as parent, lasting a minute from 0 or from a tick after
\* the end of that minute.
SnapshotEvents ==
    {e \in [event_id : EventIds, parent_event_id : {NoParent, 1},
            start_date : {0, TicksPerMinute + 1},
            end_date : {TicksPerMinute, 2 * TicksPerMinute + 1}] :
        e.end_date = e.start_date + TicksPerMinute}

SnapshotInit == Idle /\ store = {}

\* Batches are committed by bulkCreate, INSERT by INSERT, while the four
\* analytics calls are made.
SnapshotNext ==
    \/ BulkCreateBegin
    \/ \E e \in SnapshotEvents : BulkCreateInsert(e)
    \/ BulkCreateCommit
    \/ \E s, t \in EventIds : FindShortestPath(s, t)
    \/ FindOverlappingEvents
    \/ FindTemporalGaps(0, 2 * TicksPerMinute + 1)
    \/ \E rootEventId \in EventIds : GetTimeline(rootEventId)

SnapshotSpec == SnapshotInit /\ [][SnapshotNext]_vars

\* The events of the search specification: every id with every parent,
\* lasting a tick (0 minutes) or a minute.
SearchEvents ==
    [event_id : EventIds, parent_event_id : {NoParent} \cup EventIds,
     start_date : {0}, end_date : {1, TicksPerMinute}]

\* Every table of rows with distinct ids whose parents are rows of the
\* table (the primary key and the foreign key of the schema): also those
\* where an event is its own parent and those where parents make a longer
\* cycle.
SearchTables ==
    {rows \in SUBSET {Row(e) : e \in SearchEvents} :
        /\ \A a, b \in rows : a.event_id = b.event_id => a = b
        /\ \A a \in rows : a.parent_event_id \in {NoParent} \cup IdsOf(rows)}

SearchInit ==
    /\ disk = [p \in Paths |-> NoFile]
    /\ ledger = <<>>
    /\ task = <<>>
    /\ commits = <<>>
    /\ store \in SearchTables
    /\ lastCall = NoCall
    /\ clock = 0
    /\ txn = NoTxn
    /\ reply = NoReply
    /\ search = NoSearch

SearchNext ==
    \/ \E s, t \in EventIds : SearchBegin(s, t)
    \/ SearchLoop
    \/ Rebuild
    \/ PathLoop

SearchSpec == SearchInit /\ [][SearchNext]_vars

\* The loops are synchronous code: once entered, they are run until they
\* are left.
SearchFairSpec ==
    SearchSpec /\ WF_vars(SearchLoop) /\ WF_vars(Rebuild) /\ WF_vars(PathLoop)

(* ------------------------------ claims --------------------------------- *)

Terminal == {"COMPLETED", "FAILED"}

\* The task of the job has ended: processFile settled and, if it rejected,
\* the handler of startIngestion has run.
Ended(j) == task[j].pc \in {"done", "unhandled"}

LinesOf(j) == disk[ledger[j].file_path].lines

CountKind(lines, kind) == Cardinality({i \in 1..Len(lines) : lines[i] = kind})

\* The numbers of the lines of that kind among the first k, in order.
LineNumbers(lines, kind, k) ==
    LET Is(i) == lines[i] = kind
    IN  SelectSeq([i \in 1..k |-> i], Is)

RECURSIVE SumSizes(_, _)
SumSizes(cs, ok) ==
    IF cs = <<>> THEN 0
    ELSE (IF Head(cs).ok = ok THEN Head(cs).size ELSE 0) + SumSizes(Tail(cs), ok)

CeilDiv(n, b) == (n + b - 1) \div b

\* C1: the status of a ledger row changes only from PROCESSING to COMPLETED
\* or from PROCESSING to FAILED; a row never disappears.
C1_StatusTransitions ==
    [][\A j \in DOMAIN ledger :
          /\ j \in DOMAIN ledger'
          /\ ledger'[j].status # ledger[j].status
                => /\ ledger[j].status = "PROCESSING"
                   /\ ledger'[j].status \in Terminal]_vars

\* C1 witness: a job that is FAILED after a ledger write failed.
C1_Witness ==
    \E j \in DOMAIN ledger :
        ledger[j].status = "FAILED" /\ task[j].error = "ledger" /\ Ended(j)

\* C2 (the claim as stated): once the background task of a job has ended,
\* the job has left PROCESSING.
C2_EndedLeavesProcessing ==
    \A j \in DOMAIN ledger : Ended(j) => ledger[j].status \in Terminal

\* C3 (the claim as stated): processed_lines and error_lines of a ledger row
\* never decrease from one ledger state to the next.
C3_CountersMonotonic ==
    [][\A j \in DOMAIN ledger :
          /\ ledger'[j].processed_lines >= ledger[j].processed_lines
          /\ ledger'[j].error_lines >= ledger[j].error_lines]_vars

\* C4: at COMPLETED, processed_lines + error_lines is at most total_lines and
\* equals the number of non-blank lines of the file.
C4_Accounting ==
    \A j \in DOMAIN ledger :
        ledger[j].status = "COMPLETED" =>
            LET r == ledger[j]
            IN  /\ r.processed_lines + r.error_lines <= r.total_lines
                /\ r.total_lines = Len(LinesOf(j))
                /\ r.processed_lines + r.error_lines
                      = r.total_lines - CountKind(LinesOf(j), "blank")

\* C4 witness: a COMPLETED job whose file had a blank line and a line that
\* failed parsing, and one of whose commits failed.
C4_Witness ==
    \E j \in DOMAIN ledger :
        /\ ledger[j].status = "COMPLETED"
        /\ CountKind(LinesOf(j), "blank") > 0
        /\ CountKind(LinesOf(j), "invalid") > 0
        /\ \E i \in 1..Len(commits[j]) : ~commits[j][i].ok

\* A step in which job j made a bulkCreate call that failed.
CommitFailedStep(j) ==
    /\ j \in DOMAIN commits
    /\ Len(commits'[j]) = Len(commits[j]) + 1
    /\ ~commits'[j][Len(commits'[j])].ok

\* C5: a failed bulkCreate moves the size of the batch from the processed to
\* the error counter, leaves the job's ledger row alone, and the
\* task goes on with the next line, flush or completion; no line is given to
\* bulkCreate twice.
C5_CommitFailure ==
    /\ [][\A j \in JobIds :
             CommitFailedStep(j) =>
                LET n == Len(task[j].eventBatch)
                IN  /\ n = commits'[j][Len(commits'[j])].size
                    /\ task'[j].errorLines = task[j].errorLines + n
                    /\ task'[j].processedLines = task[j].processedLines - n
                    /\ task[j].pc = "commit" => task'[j].eventBatch = <<>>
                    /\ task'[j].pc \in {"read", "flush", "complete"}
                    /\ task'[j].error = NULL
                    /\ ledger' = ledger]_vars
    /\ [](\A j \in DOMAIN commits :
             \A i, k \in 1..Len(commits[j]) :
                 i # k => commits[j][i].lines \cap commits[j][k].lines = {})

\* C5 witness: a job that COMPLETED although the commit of its first, full
\* batch failed, a later commit succeeded and the commit of its trailing,
\* partial batch failed.
C5_Witness ==
    \E j \in DOMAIN ledger :
        LET cs == commits[j]
        IN  /\ ledger[j].status = "COMPLETED"
            /\ Len(cs) >= 3
            /\ ~cs[1].ok /\ cs[1].size = batchSize
            /\ cs[2].ok
            /\ ~cs[Len(cs)].ok /\ cs[Len(cs)].size < batchSize

\* C6: with N well-formed lines the job makes ceil(N/batchSize) bulkCreate
\* calls, in line order, each of batchSize drafts except a last one of
\* N mod batchSize, never an empty one; at COMPLETED processed_lines is the
\* sum of the sizes of the calls that succeeded.
C6_Batches ==
    \A j \in DOMAIN ledger :
        LET cs    == commits[j]
            valid == LineNumbers(LinesOf(j), "valid", Len(LinesOf(j)))
            N     == Len(valid)
        IN  /\ \A i \in 1..Len(cs) :
                  /\ cs[i].size >= 1
                  /\ cs[i].size = IF i * batchSize <= N THEN batchSize ELSE N % batchSize
                  /\ cs[i].lines =
                        {valid[m] : m \in ((i - 1) * batchSize + 1)..((i - 1) * batchSize + cs[i].size)}
            /\ ledger[j].status = "COMPLETED" =>
                  /\ Len(cs) = CeilDiv(N, batchSize)
                  /\ ledger[j].processed_lines = SumSizes(cs, TRUE)

\* C6 witness: batchSize + 1 well-formed lines, two calls (batchSize, then
\* 1), the second failed, processed_lines = batchSize.
C6_Witness ==
    \E j \in DOMAIN ledger :
        /\ ledger[j].status = "COMPLETED"
        /\ LinesOf(j) = [i \in 1..(batchSize + 1) |-> "valid"]
        /\ Len(commits[j]) = 2
        /\ commits[j][1].ok /\ ~commits[j][2].ok
        /\ commits[j][2].size = 1
        /\ ledger[j].processed_lines = batchSize

FatalCauses == {"countLines", "stream", "ledger"}

\* The lines the task has dealt with: the line it read last is dealt with
\* once its addError, if it needs one, is done.
Handled(j) ==
    IF task[j].pc = "addError" THEN task[j].lineNumber - 1 ELSE task[j].lineNumber

\* C7: a line that fails parsing does not abort the job: its addError adds
\* one to error_lines and one entry naming the line to errors, and the loop
\* goes on. Until a fatal failure, errors holds exactly one entry per line that failed parsing, in
\* order, naming its line number; the task leaves its normal course only for
\* a fatal cause; a task that ended with none is COMPLETED, with error_lines
\* the failed lines plus the drafts of failed commits and processed_lines the
\* drafts of the commits that succeeded.
C7_ParseFailure ==
  /\ [][\A j \in DOMAIN ledger :
           (task[j].pc = "addError" /\ ledger'[j] # ledger[j]) =>
               /\ LinesOf(j)[task[j].lineNumber] = "invalid"
               /\ ledger'[j].error_lines = ledger[j].error_lines + 1
               /\ ledger'[j].errors = Append(ledger[j].errors, LineError(task[j].lineNumber))
               /\ ledger'[j].status = "PROCESSING"
               /\ task'[j].pc \in {"commit", "flush", "read"}]_vars
  /\ [](\A j \in DOMAIN ledger :
        LET r       == ledger[j]
            invalid == LineNumbers(LinesOf(j), "invalid", Handled(j))
        IN  /\ task[j].error = NULL =>
                  /\ r.status # "FAILED"
                  /\ r.errors = [i \in 1..Len(invalid) |-> LineError(invalid[i])]
            /\ task[j].error # NULL => task[j].error \in FatalCauses
            /\ (Ended(j) /\ task[j].error = NULL) =>
                  /\ r.status = "COMPLETED"
                  /\ r.error_lines = Len(invalid) + SumSizes(commits[j], FALSE)
                  /\ r.processed_lines = SumSizes(commits[j], TRUE)
                  /\ r.processed_lines + SumSizes(commits[j], FALSE)
                        = CountKind(LinesOf(j), "valid"))

\* C7 witness: the 3-line file with a bad line 2 and no failed commit:
\* COMPLETED, processed_lines = 2, error_lines = 1, one entry for line 2.
C7_Witness ==
    \E j \in DOMAIN ledger :
        /\ LinesOf(j) = <<"valid", "invalid", "valid">>
        /\ ledger[j].status = "COMPLETED"
        /\ ledger[j].processed_lines = 2
        /\ ledger[j].error_lines = 1
        /\ ledger[j].errors = <<LineError(2)>>

\* The drafts of the commits of job j that succeeded.
Committed(j) ==
    {Draft(task[j].filePath, n) :
        n \in UNION {commits[j][i].lines : i \in {k \in 1..Len(commits[j]) : commits[j][k].ok}}}

\* C8 (the claim as stated): a task that ended after a fatal failure left the
\* job FAILED, a failure message last in errors and end_time set, and every
\* batch committed before the failure in the store.
C8_FatalFailure ==
    \A j \in DOMAIN ledger :
        (Ended(j) /\ task[j].error # NULL) =>
            /\ ledger[j].status = "FAILED"
            /\ ledger[j].errors # <<>>
            /\ ledger[j].errors[Len(ledger[j].errors)].text = "Processing failed"
            /\ ledger[j].end_time # NoTime
            /\ Committed(j) \subseteq store

\* C9: a ledger row whose status is COMPLETED or FAILED is never changed.
C9_TerminalImmutable ==
    [][\A j \in DOMAIN ledger :
          ledger[j].status \in Terminal => ledger'[j] = ledger[j]]_vars

\* C9 witness: startIngestion was called, and failed, after the job ended.
C9_Witness ==
    \E j \in DOMAIN ledger :
        /\ ledger[j].status \in Terminal /\ Ended(j)
        /\ lastCall.result = "Failed to start ingestion"

\* C10: a startIngestion call for a path with no accessible file fails; a
\* call that fails leaves the ledger as it was and starts no task, so no row
\* and no task is ever for such a path.
C10_StartFails ==
    /\ [][(lastCall' # NoCall /\ ~disk[lastCall'.filePath].exists)
             => /\ lastCall'.result = "Failed to start ingestion"
                /\ ledger' = ledger /\ task' = task]_vars
    /\ [][lastCall'.result = "Failed to start ingestion"
             => ledger' = ledger /\ task' = task]_vars
    /\ [](\A j \in DOMAIN ledger : disk[ledger[j].file_path].exists)

\* C10 witness: a call for the missing path failed while the ledger held a
\* job.
C10_Witness ==
    /\ lastCall.result = "Failed to start ingestion"
    /\ lastCall.filePath = "missing.txt"
    /\ DOMAIN ledger # {}

\* C11: when startIngestion returns a job id, the ledger holds a row with
\* that id, PROCESSING, and the task has read no line yet: the return does
\* not wait for the file.
C11_ReturnsBeforeProcessing ==
    lastCall.result = "Ingestion initiated" =>
        LET j == lastCall.jobId
        IN  /\ j \in DOMAIN ledger
            /\ ledger[j].job_id = j
            /\ ledger[j].file_path = lastCall.filePath
            /\ ledger[j].status = "PROCESSING"
            /\ task[j].pc = "count" /\ task[j].lineNumber = 0

\* C11 witness: startIngestion has returned, the job is PROCESSING and its
\* file has lines, none of them read.
C11_Witness ==
    /\ lastCall.result = "Ingestion initiated"
    /\ lastCall.jobId \in DOMAIN ledger
    /\ ledger[lastCall.jobId].status = "PROCESSING"
    /\ task[lastCall.jobId].lineNumber < Len(LinesOf(lastCall.jobId))

\* C12: getJobStatus answers 'Job not found' exactly for an id with no row
\* (when its query is answered), otherwise the status, counters and errors
\* the row holds; the call leaves the ledger as it was.
C12_GetJobStatus ==
    /\ [][reply'.op = "getJobStatus" => ledger' = ledger]_vars
    /\ [](reply.op = "getJobStatus" =>
            LET j == reply.jobId
                r == reply.result
            IN  /\ r.error = "Job not found" => j \notin DOMAIN ledger
                /\ (j \notin DOMAIN ledger /\ r.error # "query failed")
                      => r.error = "Job not found"
                /\ r.error = NULL =>
                      /\ j \in DOMAIN ledger
                      /\ r.body.jobId = j
                      /\ r.body.status = ledger[j].status
                      /\ r.body.processedLines = ledger[j].processed_lines
                      /\ r.body.errorLines = ledger[j].error_lines
                      /\ r.body.totalLines = ledger[j].total_lines
                      /\ r.body.errors = ledger[j].errors
                /\ (j \in DOMAIN ledger /\ r.error # "query failed")
                      => r.error = NULL)

\* C12 witness: a status read while the job is PROCESSING, with lines
\* processed and an error recorded.
C12_Witness ==
    /\ reply.op = "getJobStatus"
    /\ reply.result.error = NULL
    /\ reply.result.body.status = "PROCESSING"
    /\ reply.result.body.processedLines > 0
    /\ reply.result.body.errors # <<>>

\* C13: a bulkCreate call that fails (duplicate id, missing parent, date
\* order, or a failed COMMIT) leaves the store as it was before the call;
\* one that succeeds adds the row of every event of the batch.
C13_BatchAtomic ==
    [][reply'.op = "bulkCreate" =>
          IF reply'.error = NULL
          THEN store' = store \cup {Row(e) : e \in reply'.events}
          ELSE store' = store]_vars

\* C13 witness: a batch rejected after some of its INSERTs were accepted,
\* with rows from earlier commits in the store.
C13_Witness ==
    /\ reply.op = "bulkCreate"
    /\ reply.error \in {"chk_date_order", "historical_events_pkey",
                        "historical_events_parent_event_id_fkey"}
    /\ Cardinality(reply.events) >= 2
    /\ store # {}

RECURSIVE AncestorAt(_, _, _)
\* The k-th ancestor of an event id among rows; NoParent where the chain ends.
AncestorAt(rows, id, k) ==
    IF k = 0 \/ id \notin IdsOf(rows) THEN id
    ELSE AncestorAt(rows, (CHOOSE r \in rows : r.event_id = id).parent_event_id,
                    k - 1)

\* C14: the parent relation of the store is a forest: every parent is a
\* stored event, and no event is its own ancestor (nor its own parent).
C14_ParentForest ==
    \A r \in store :
        /\ r.parent_event_id # NoParent => r.parent_event_id \in IdsOf(store)
        /\ \A k \in 1..Cardinality(store) :
              AncestorAt(store, r.event_id, k) # r.event_id

\* The part of C14 that holds: parents are stored events, and every cycle
\* is an event that is its own parent.
ParentsPresentAndOnlySelfLoops ==
    \A r \in store :
        /\ r.parent_event_id # NoParent => r.parent_event_id \in IdsOf(store)
        /\ \A k \in 1..Cardinality(store) :
              AncestorAt(store, r.event_id, k) = r.event_id
                  => r.parent_event_id = r.event_id

\* C15: the totalDurationMinutes of a path returned for distinct ids is the
\* sum of the duration_minutes of its nodes after the source (the edge
\* weights).
C15_TotalIsEdgeWeights ==
    (/\ reply.op = "findShortestPath"
     /\ reply.sourceEventId # reply.targetEventId
     /\ reply.result.shortestPath # <<>>) =>
        reply.result.totalDurationMinutes
            = SumDurations(Tail(reply.result.shortestPath))

\* What the code returns: the sum over every node, the source included.
TotalIncludesSource ==
    (reply.op = "findShortestPath" /\ reply.result.shortestPath # <<>>) =>
        reply.result.totalDurationMinutes
            = SumDurations(reply.result.shortestPath)

\* The chain of C15 in the store, asked from A to C: B lasts 10 minutes and
\* C lasts 20.
ChainAsked ==
    /\ reply.op = "findShortestPath"
    /\ Len(reply.result.shortestPath) = 3
    /\ reply.result.shortestPath[2].duration_minutes = 10
    /\ reply.result.shortestPath[3].duration_minutes = 20

\* C15, its example: the chain A, B, C with B of 10 and C of 20 minutes has
\* total weight 30.
ChainTotalIs30 == ChainAsked => reply.result.totalDurationMinutes = 30

\* The target is reached from the source by parent-to-child edges.
Reachable(rows, s, t) ==
    \E k \in 1..Cardinality(rows) : AncestorAt(rows, t, k) = s

\* C16: for distinct ids and an answered query, the path is non-empty iff
\* the target is reachable from the source along parent-to-child edges; it
\* then runs from the source to the target over such edges; otherwise the
\* result is the no-path result, with an empty path and a total of 0.
C16_PathIffReachable ==
    (/\ reply.op = "findShortestPath"
     /\ reply.sourceEventId # reply.targetEventId
     /\ reply.result.error # "query failed") =>
        LET s == reply.sourceEventId
            t == reply.targetEventId
            r == reply.result
            path == r.shortestPath
        IN  /\ r.error = NULL
            /\ path # <<>> <=> Reachable(store, s, t)
            /\ path # <<>> =>
                  /\ path[1].event_id = s
                  /\ path[Len(path)].event_id = t
                  /\ \A i \in 1..(Len(path) - 1) :
                        \E c \in store :
                            /\ c.event_id = path[i + 1].event_id
                            /\ c.parent_event_id = path[i].event_id
            /\ path = <<>> =>
                  /\ r.totalDurationMinutes = 0
                  /\ r.message = NoPathMessage

\* C16 witness: a path over two edges has been returned.
C16_Witness ==
    /\ reply.op = "findShortestPath"
    /\ reply.sourceEventId # reply.targetEventId
    /\ Len(reply.result.shortestPath) = 3

\* C17: a request with equal source and target ids is answered 400
\* 'Validation Error', and findShortestPath is not called for it.
C17_SameIdsRejected ==
    (reply.op = "event-influence" /\ reply.sourceEventId = reply.targetEventId) =>
        /\ reply.status = 400
        /\ reply.error = "Validation Error"
        /\ ~reply.ran

\* C17 witness: a request naming one stored event twice has been rejected.
C17_Witness ==
    /\ reply.op = "event-influence"
    /\ reply.sourceEventId = reply.targetEventId
    /\ reply.sourceEventId \in IdsOf(store)
    /\ reply.status = 400

\* The ids of the two events of a reported pair.
PairIds(entry) ==
    {entry.overlappingEventPairs[1].event_id,
     entry.overlappingEventPairs[2].event_id}

\* The largest and the smallest of a set of timestamps.
MaxOf(S) == CHOOSE x \in S : \A y \in S : y <= x
MinOf(S) == CHOOSE x \in S : \A y \in S : x <= y

\* The stored event with an id.
EventOf(id) == CHOOSE r \in store : r.event_id = id

\* C18: two distinct stored events are reported as a pair iff the later of
\* their starts is before the earlier of their ends (so pairs that only
\* touch are not); the duration the query computes for a reported pair is
\* the earlier end minus the later start, and the response carries it as
\* minutes, rounded.
C18_ReportedIffOverlap ==
    (reply.op = "findOverlappingEvents" /\ reply.error = NULL) =>
        /\ \A a, b \in store :
              a.event_id # b.event_id =>
                 ((\E i \in 1..Len(reply.result) :
                       PairIds(reply.result[i]) = {a.event_id, b.event_id})
                  <=> MaxOf({a.start_date, b.start_date})
                          < MinOf({a.end_date, b.end_date}))
        /\ \A i \in 1..Len(reply.result) :
              LET pair == reply.result[i].overlappingEventPairs
                  d == MinOf({pair[1].end_date, pair[2].end_date})
                         - MaxOf({pair[1].start_date, pair[2].start_date})
              IN  /\ PairIds(reply.result[i]) \subseteq IdsOf(store)
                  /\ Shown(EventOf(pair[1].event_id)) = pair[1]
                  /\ Shown(EventOf(pair[2].event_id)) = pair[2]
                  /\ reply.rows[i].overlap = d
                  /\ reply.result[i].overlap_duration_minutes
                        = Round(d, TicksPerMinute)

\* C18 witness: a pair is reported while two stored events that only touch
\* are not.
C18_Witness ==
    /\ reply.op = "findOverlappingEvents"
    /\ reply.result # <<>>
    /\ \E a, b \in store :
          /\ a.end_date = b.start_date
          /\ \A i \in 1..Len(reply.result) :
                PairIds(reply.result[i]) # {a.event_id, b.event_id}

\* C19: no entry pairs an event with itself, no two entries are the same
\* unordered pair, and the predicate that selects a pair holds for (a, b)
\* iff it holds for (b, a).
C19_PairsOnceSymmetric ==
    /\ (reply.op = "findOverlappingEvents") =>
          /\ \A i \in 1..Len(reply.result) :
                Cardinality(PairIds(reply.result[i])) = 2
          /\ \A i, k \in 1..Len(reply.result) :
                PairIds(reply.result[i]) = PairIds(reply.result[k]) => i = k
    /\ \A a, b \in store : Where(a, b) <=> Where(b, a)

\* C19 witness: two pairs sharing an event are reported.
C19_Witness ==
    /\ reply.op = "findOverlappingEvents"
    /\ Len(reply.result) >= 2
    /\ PairIds(reply.result[1]) \cap PairIds(reply.result[2]) # {}

\* C20: every reported pair carries an overlap_duration_minutes above 0.
C20_ReturnedDurationPositive ==
    (reply.op = "findOverlappingEvents") =>
        \A i \in 1..Len(reply.result) :
            reply.result[i].overlap_duration_minutes > 0

\* What holds instead: the duration the query computes is above 0, and the
\* returned minutes are 0 or more.
QueryDurationPositive ==
    (reply.op = "findOverlappingEvents") =>
        \A i \in 1..Len(reply.result) :
            /\ reply.rows[i].overlap > 0
            /\ reply.result[i].overlap_duration_minutes >= 0

\* The number of fields of a line, and its k-th field without the blanks
\* around it.
NumFields(line) == 1 + Cardinality({i \in 1..Len(line) : line[i] = Pipe})
Field(line, k) == trim(split(line)[k])
IsBlankLine(line) == \A i \in 1..Len(line) : line[i] = Blank

\* C24, as written: every line whose number of fields is not 6 fails with
\* the malformed-entry error.
C24_NotSixFields ==
    (reply.op = "parseLine" /\ NumFields(reply.line) # 6) =>
        /\ reply.result.outcome = "throw"
        /\ reply.result.error = "Malformed entry"

\* C24, amended: every line that is not blank and whose number of fields is
\* not 6 fails with the malformed-entry error, which reports the number of
\* fields found, and with no other outcome; a blank line is skipped.
C24_NonBlankNotSixFields ==
    (reply.op = "parseLine" /\ NumFields(reply.line) # 6) =>
        IF IsBlankLine(reply.line)
        THEN reply.result.outcome = "null"
        ELSE /\ reply.result.outcome = "throw"
             /\ reply.result.error = "Malformed entry"
             /\ reply.result.got = NumFields(reply.line)

\* C24 witness: a line of seven fields, the first six of them those of a
\* valid event, has been rejected.
C24_Witness ==
    /\ reply.op = "parseLine"
    /\ NumFields(reply.line) = 7
    /\ isValidUUID(Field(reply.line, 1))
    /\ reply.result.error = "Malformed entry"

\* C26: every draft, every row of the store and of an open transaction has
\* start_date before end_date; a line of six fields whose dates parse and
\* are not in that order is never a draft, and it fails with the date-order
\* error when its event id is valid.
C26_DatesInOrder ==
    /\ (reply.op = "parseLine" /\ reply.result.outcome = "draft") =>
          reply.result.draft.start_date < reply.result.draft.end_date
    /\ \A r \in store \cup txn.rows : r.start_date < r.end_date
    /\ (/\ reply.op = "parseLine"
        /\ NumFields(reply.line) = 6
        /\ isDate(Field(reply.line, 3)) /\ isDate(Field(reply.line, 4))
        /\ Field(reply.line, 3)[1].n >= Field(reply.line, 4)[1].n) =>
          /\ reply.result.outcome = "throw"
          /\ isValidUUID(Field(reply.line, 1)) =>
                reply.result.error = "Start date must be before end date"

\* C26 witness: a line with a valid id and equal dates has been rejected
\* with the date-order error.
C26_Witness ==
    /\ reply.op = "parseLine"
    /\ NumFields(reply.line) = 6
    /\ isDate(Field(reply.line, 3))
    /\ Field(reply.line, 3) = Field(reply.line, 4)
    /\ reply.result.error = "Start date must be before end date"

\* The line passes every check made before the parent id is looked at.
ReachesParentCheck(line) ==
    /\ NumFields(line) = 6
    /\ isValidUUID(Field(line, 1))
    /\ isDate(Field(line, 3)) /\ isDate(Field(line, 4))
    /\ Field(line, 3)[1].n < Field(line, 4)[1].n

\* C27: of a line that reaches the parent check, the parent is absent
\* exactly when the trimmed field is empty or the word NULL in any case; any
\* other field is a UUID, recorded as it is trimmed, or the line fails with
\* the invalid-parent error.
C27_ParentId ==
    (reply.op = "parseLine" /\ ReachesParentCheck(reply.line)) =>
        LET parentId == Field(reply.line, 5)
            r == reply.result
        IN  IF parentId = <<>> \/ (Len(parentId) = 1 /\ parentId[1].kind = "NULL")
            THEN r.outcome = "draft" /\ r.draft.parent_event_id = NoParentId
            ELSE IF uuidRegex(parentId)
            THEN /\ r.outcome = "draft"
                 /\ r.draft.parent_event_id = parentId
                 /\ r.draft.parent_event_id # NoParentId
            ELSE r.outcome = "throw" /\ r.error = "Invalid parent UUID format"

\* C27 witness: a draft names a parent that is not in the store.
C27_Witness ==
    /\ reply.op = "parseLine"
    /\ reply.result.outcome = "draft"
    /\ reply.result.draft.parent_event_id # NoParentId
    /\ reply.result.draft.parent_event_id # reply.result.draft.event_id
    /\ store = {}

\* C28: every draft has a non-empty event_name.
C28_NameNotEmpty ==
    (reply.op = "parseLine" /\ reply.result.outcome = "draft") =>
        reply.result.draft.event_name # <<>>

\* The example line of the README.
ReadmeLine ==
    Join(<<<<ReadmeId>>, <<Word, Blank, Word>>, <<DateWord(0)>>,
           <<DateWord(MaxDate)>>, <<NullWord(0)>>, <<Word>>>>)

\* C29: the example line of the README is accepted as an event, and its id
\* passes the UUID check.
C29_ReadmeExample ==
    (reply.op = "parseLine" /\ reply.line = ReadmeLine) =>
        /\ reply.result.outcome = "draft"
        /\ uuidRegex(<<ReadmeId>>)

\* What happens instead: the example line fails with the invalid-UUID error.
ReadmeExampleRejected ==
    (reply.op = "parseLine" /\ reply.line = ReadmeLine) =>
        reply.result.error = "Invalid UUID format"

\* The step in which job j reads its next line, and that line is blank.
ReadsBlankLine(j) ==
    /\ j \in DOMAIN task /\ task[j].pc = "read"
    /\ task'[j].lineNumber = task[j].lineNumber + 1
    /\ LinesOf(j)[task'[j].lineNumber] = "blank"

Qualifying(startDate, endDate) ==
    {e \in store : startDate <= e.start_date /\ e.end_date <= endDate}

\* The positions i of a sequence of events where event i ends before event
\* i + 1 starts.
GapsAt(seq) == {i \in 1..(Len(seq) - 1) : seq[i].end_date < seq[i + 1].start_date}

\* The result names the events at positions i and i + 1 of the sequence, the
\* end of the one and the start of the other, and the minutes between them.
IsGapAt(result, seq, i) ==
    /\ result.largest
    /\ result.largestGap.precedingEvent =
          [event_id |-> seq[i].event_id, end_date |-> seq[i].end_date]
    /\ result.largestGap.succeedingEvent =
          [event_id |-> seq[i + 1].event_id, start_date |-> seq[i + 1].start_date]
    /\ result.largestGap.startOfGap = seq[i].end_date
    /\ result.largestGap.endOfGap = seq[i + 1].start_date
    /\ result.largestGap.durationMinutes =
          Round(seq[i + 1].start_date - seq[i].end_date, TicksPerMinute)

\* The answered findTemporalGaps call of this state.
GapAnswered == reply.op = "findTemporalGaps" /\ reply.result.error = NULL

\* C21: an answered findTemporalGaps call is, for some order by start_date
\* of the events the window holds, the pair of consecutive events with the
\* largest positive time from the end of the one to the start of the next,
\* with the two times and that time in minutes (rounded); it has no largest
\* gap when no consecutive pair of that order has a positive time between,
\* and so when fewer than two events are in the window.
C21_LargestGap ==
    GapAnswered =>
        /\ \E seq \in Orders(Qualifying(reply.startDate, reply.endDate)) :
              /\ \A i \in 1..(Len(seq) - 1) :
                    seq[i].start_date <= seq[i + 1].start_date
              /\ IF GapsAt(seq) = {} THEN ~reply.result.largest
                 ELSE \E i \in GapsAt(seq) :
                         /\ IsGapAt(reply.result, seq, i)
                         /\ \A k \in GapsAt(seq) :
                               seq[k + 1].start_date - seq[k].end_date
                                  <= seq[i + 1].start_date - seq[i].end_date
        /\ Cardinality(Qualifying(reply.startDate, reply.endDate)) < 2
              => ~reply.result.largest
        /\ ~reply.result.largest => reply.result.message = NoGapMessage

\* C21 witness: of three events in the window, with a shorter and a longer
\* gap between them, the longer gap has been returned.
C21_Witness ==
    /\ GapAnswered
    /\ reply.result.largest
    /\ Cardinality(Qualifying(reply.startDate, reply.endDate)) = 3
    /\ \E seq \in Orders(Qualifying(reply.startDate, reply.endDate)) :
          /\ Cardinality(GapsAt(seq)) = 2
          /\ \E i, k \in GapsAt(seq) :
                /\ IsGapAt(reply.result, seq, i)
                /\ seq[k + 1].start_date - seq[k].end_date
                      < seq[i + 1].start_date - seq[i].end_date

\* C21 witness of the other case: two events in the window, the second
\* starting before the first ends, and no largest gap.
NoGapOfTwo ==
    /\ GapAnswered
    /\ ~reply.result.largest
    /\ Cardinality(Qualifying(reply.startDate, reply.endDate)) = 2

\* C22: no event of the window overlaps the open interval from startOfGap to
\* endOfGap of a returned gap.
C22_GapIsIdle ==
    (GapAnswered /\ reply.result.largest) =>
        \A e \in Qualifying(reply.startDate, reply.endDate) :
            ~(/\ e.start_date < reply.result.largestGap.endOfGap
              /\ reply.result.largestGap.startOfGap < e.end_date)

\* The returned gap lies between the two events it names: the one ends where
\* it starts, the other starts where it ends.
GapBetweenNamedEvents ==
    (GapAnswered /\ reply.result.largest) =>
        \E a, b \in Qualifying(reply.startDate, reply.endDate) :
            /\ a.event_id = reply.result.largestGap.precedingEvent.event_id
            /\ b.event_id = reply.result.largestGap.succeedingEvent.event_id
            /\ a.end_date = reply.result.largestGap.startOfGap
            /\ b.start_date = reply.result.largestGap.endOfGap
            /\ a.end_date < b.start_date
            /\ a.start_date <= b.start_date

\* C23: a temporal-gaps request with a date missing, or with a startDate
\* that is not before its endDate, is answered 400 with a validation error,
\* and findTemporalGaps is not called for it.
C23_WindowValidated ==
    (/\ reply.op = "temporal-gaps"
     /\ \/ reply.startDate = NoDate
        \/ reply.endDate = NoDate
        \/ ~(reply.startDate < reply.endDate))
        => /\ reply.status = 400
           /\ reply.error = "Validation Error"
           /\ ~reply.ran

\* C23 witness: a request with equal dates has been rejected while the table
\* holds events at that time.
C23_Witness ==
    /\ reply.op = "temporal-gaps"
    /\ reply.startDate # NoDate
    /\ reply.startDate = reply.endDate
    /\ reply.status = 400
    /\ store # {}

\* A request with both dates, the first before the second, is handed on.
WindowInOrderIsRun ==
    (/\ reply.op = "temporal-gaps"
     /\ reply.startDate # NoDate
     /\ reply.startDate < reply.endDate)
        => reply.ran /\ reply.status \in {200, 500}

RECURSIVE NodeIds(_)
\* The ids of the nodes of a tree, the root first.
NodeIds(tree) ==
    LET RECURSIVE all(_)
        all(trees) == IF trees = <<>> THEN <<>>
                      ELSE NodeIds(Head(trees)) \o all(Tail(trees))
    IN  <<tree.event_id>> \o all(tree.children)

RECURSIVE ChildrenOfParent(_)
\* Every node below the root of a tree is a child of the node its
\* parent_event_id names.
ChildrenOfParent(tree) ==
    \A i \in 1..Len(tree.children) :
        /\ tree.children[i].parent_event_id = tree.event_id
        /\ ChildrenOfParent(tree.children[i])

\* The ids of the events below an id: those with the id among their
\* ancestors.
Descendants(id) ==
    {r.event_id : r \in {d \in store : \E k \in 1..Cardinality(store) :
                            AncestorAt(store, d.event_id, k) = id}}

\* The result is the answer for the id: null when the store has no event of
\* the id, else a tree rooted at it whose nodes are the event and the events
\* below it, each once, each under its parent.
IsTimelineOf(result, id) ==
    /\ result.error = NULL
    /\ result.found <=> id \in IdsOf(store)
    /\ result.found =>
          /\ result.tree.event_id = id
          /\ \A i, k \in 1..Len(NodeIds(result.tree)) :
                NodeIds(result.tree)[i] = NodeIds(result.tree)[k] => i = k
          /\ {NodeIds(result.tree)[i] : i \in 1..Len(NodeIds(result.tree))}
                = {id} \cup Descendants(id)
          /\ ChildrenOfParent(result.tree)

\* C30: a getTimeline call whose query the database did not fail gives null
\* when no event has the id, and else the tree of the event and all events
\* below it, each once and under its parent.
C30_TimelineTree ==
    (reply.op = "getTimeline" /\ reply.result.error # "query failed")
        => IsTimelineOf(reply.result, reply.rootEventId)

\* What holds instead: the call gives that answer unless the event of the id
\* is its own parent, and then it gives no answer.
TimelineUnlessOwnParent ==
    (reply.op = "getTimeline" /\ reply.result.error # "query failed")
        => IF [event_id |-> reply.rootEventId,
               parent_event_id |-> reply.rootEventId]
                 \in {[event_id |-> r.event_id,
                       parent_event_id |-> r.parent_event_id] : r \in store}
           THEN reply.result.error = "recursion does not end"
           ELSE IsTimelineOf(reply.result, reply.rootEventId)

\* A tree of three levels has been returned.
TimelineOfThreeLevels ==
    /\ reply.op = "getTimeline"
    /\ reply.result.found
    /\ \E i \in 1..Len(reply.result.tree.children) :
          reply.result.tree.children[i].children # <<>>

\* The route answers 404 exactly when getTimeline gave null, and 200 with
\* the tree when it gave one.
TimelineRouteAnswers ==
    (reply.op = "timeline" /\ reply.ran /\ reply.status # 500)
        => /\ reply.status = 404 <=> reply.rootEventId \notin IdsOf(store)
           /\ reply.status = 200 <=> reply.rootEventId \in IdsOf(store)
           /\ reply.status = 200 => reply.body.event_id = reply.rootEventId

\* s is an initial part of t.
IsPrefix(s, t) == Len(s) <= Len(t) /\ \A i \in 1..Len(s) : s[i] = t[i]

\* C33: end_time of a ledger row is unset while its status is PROCESSING and
\* set when its status is COMPLETED or FAILED, and once set it does not
\* change.
C33_EndTime ==
    /\ [](\A j \in DOMAIN ledger :
             /\ ledger[j].status = "PROCESSING" => ledger[j].end_time = NoTime
             /\ ledger[j].status \in Terminal => ledger[j].end_time # NoTime)
    /\ [][\A j \in DOMAIN ledger :
             ledger[j].end_time # NoTime
                => ledger'[j].end_time = ledger[j].end_time]_vars

\* C33 witness: a COMPLETED job with its end_time, later than its
\* start_time, and a later step taken.
C33_Witness ==
    \E j \in DOMAIN ledger :
        /\ ledger[j].status = "COMPLETED"
        /\ ledger[j].end_time # NoTime
        /\ ledger[j].end_time # ledger[j].start_time
        /\ reply.op = "getJobStatus"

\* The entries of an errors list that name a line, in order.
LineEntries(errors) == SelectSeq(errors, LAMBDA e : e.text = "Line")

\* C34: the errors list of a ledger row only grows at its end: the list of a
\* state is an initial part of the list of the next state; and its entries
\* for lines come in increasing order of line number.
C34_ErrorsAppendOnly ==
    /\ [][\A j \in DOMAIN ledger :
             IsPrefix(ledger[j].errors, ledger'[j].errors)]_vars
    /\ [](\A j \in DOMAIN ledger :
             \A i, k \in 1..Len(LineEntries(ledger[j].errors)) :
                 i < k => LineEntries(ledger[j].errors)[i].line
                             < LineEntries(ledger[j].errors)[k].line)

\* C34 witness: a FAILED job whose errors are two line entries, then the
\* failure message.
C34_Witness ==
    \E j \in DOMAIN ledger :
        /\ ledger[j].status = "FAILED"
        /\ Len(ledger[j].errors) = 3
        /\ ledger[j].errors[1].text = "Line"
        /\ ledger[j].errors[2].text = "Line"
        /\ ledger[j].errors[3].text = "Processing failed"

\* C35: in every ledger state processed_lines is at least 0 and
\* processed_lines + error_lines is at most total_lines.
C35_CountersWithinTotal ==
    \A j \in DOMAIN ledger :
        /\ ledger[j].processed_lines >= 0
        /\ ledger[j].processed_lines + ledger[j].error_lines <= ledger[j].total_lines

\* C35 witness: between two flushes, the ledger has the error of a line
\* read since the last flush but not the draft of such a line, and with the
\* task's processed lines its counters make the total.
C35_Witness ==
    \E j \in DOMAIN ledger :
        /\ ledger[j].status = "PROCESSING"
        /\ ledger[j].processed_lines > 0
        /\ ledger[j].error_lines > 0
        /\ task[j].processedLines > ledger[j].processed_lines
        /\ task[j].processedLines + ledger[j].error_lines = ledger[j].total_lines

\* C36: at COMPLETED, errors has one entry for each line that failed
\* parsing and no other, and error_lines is that number plus the sizes of
\* the batches whose commit failed.
C36_ErrorsAndErrorLines ==
    \A j \in DOMAIN ledger :
        ledger[j].status = "COMPLETED" =>
            LET bad == LineNumbers(LinesOf(j), "invalid", Len(LinesOf(j)))
            IN  /\ ledger[j].errors = [i \in 1..Len(bad) |-> LineError(bad[i])]
                /\ ledger[j].error_lines = Len(bad) + SumSizes(commits[j], FALSE)

\* C36 witness: a COMPLETED job with one entry in errors and error_lines
\* above 2: a full batch failed to commit.
C36_Witness ==
    \E j \in DOMAIN ledger :
        /\ ledger[j].status = "COMPLETED"
        /\ Len(ledger[j].errors) = 1
        /\ ledger[j].error_lines = 1 + batchSize
        /\ ledger[j].processed_lines > 0

\* C37: at COMPLETED, processed_lines is the number of events of the job in
\* the store, which are the drafts of its commits that succeeded.
C37_ProcessedAreStored ==
    \A j \in DOMAIN ledger :
        ledger[j].status = "COMPLETED" =>
            /\ ledger[j].processed_lines
                  = Cardinality({d \in store : d.source_file = ledger[j].file_path})
            /\ {d.line_number : d \in store}
                  = UNION {commits[j][i].lines :
                             i \in {k \in 1..Len(commits[j]) : commits[j][k].ok}}

\* C37 witness: a COMPLETED job of which one commit failed and two
\* succeeded.
C37_Witness ==
    \E j \in DOMAIN ledger :
        /\ ledger[j].status = "COMPLETED"
        /\ Len(commits[j]) = 3
        /\ ~commits[j][2].ok
        /\ ledger[j].processed_lines = batchSize + 1

StepOf(j) == j \in DOMAIN task /\ j \in DOMAIN task' /\ task'[j] # task[j]

\* The row of job j is what the lines and the commits of job j make it: its
\* errors are the entries of the lines that failed parsing and whose
\* addError is done (all of them but the last, when the ledger rejected a
\* write, which may have been that addError), then the failure message if
\* the job is FAILED; at COMPLETED its counters are those of its lines and
\* its failed commits.
RowIsOwn(j) ==
    LET r    == ledger[j]
        bad  == LineNumbers(LinesOf(j), "invalid", Handled(j))
        own  == [i \in 1..Len(bad) |-> LineError(bad[i])]
        kept == LineEntries(r.errors)
    IN  /\ r.job_id = j
        /\ IsPrefix(kept, own)
        /\ Len(kept) >= Len(own) - (IF task[j].error = "ledger" THEN 1 ELSE 0)
        /\ r.errors = IF r.status = "FAILED"
                      THEN Append(kept, ProcessingFailed(task[j].error))
                      ELSE kept
        /\ r.status = "COMPLETED" =>
              /\ task[j].pc = "done" /\ task[j].error = NULL
              /\ r.error_lines = Len(bad) + SumSizes(commits[j], FALSE)
              /\ r.processed_lines
                    = CountKind(LinesOf(j), "valid") - SumSizes(commits[j], FALSE)
              /\ r.total_lines = Len(LinesOf(j))
        /\ r.status = "FAILED" => task[j].error \in FatalCauses
        /\ r.error_lines >= Len(kept)

\* C31: with two jobs running, a step of one job leaves the row of the other
\* as it is, and the row of each job is what its own lines and its own
\* commits make it, with every error of its lines in it once.
C31_OwnRecordOnly ==
    /\ [][\A j, k \in ConcurrentJobIds :
             (StepOf(j) /\ j # k /\ k \in DOMAIN ledger)
                => (k \in DOMAIN ledger' /\ ledger'[k] = ledger[k])]_vars
    /\ [](\A j \in DOMAIN ledger : RowIsOwn(j))

\* C31 witness: both jobs are COMPLETED, each with the error of a line, one
\* with a failed commit and the other without; the second started while
\* the first ran, and ended after it.
C31_Witness ==
    /\ DOMAIN ledger = ConcurrentJobIds
    /\ \A j \in ConcurrentJobIds :
          ledger[j].status = "COMPLETED" /\ Len(ledger[j].errors) = 1
    /\ \E j, k \in ConcurrentJobIds :
          /\ ledger[j].error_lines > ledger[k].error_lines
          /\ ledger[j].start_time[1] < ledger[k].start_time[1]
          /\ ledger[k].start_time[1] < ledger[j].end_time[1]
          /\ ledger[j].end_time[1] < ledger[k].end_time[1]

\* Both tasks are between their first and their last step: the steps of the
\* two jobs interleave.
BothJobsUnderWay ==
    /\ DOMAIN task = ConcurrentJobIds
    /\ \A j \in ConcurrentJobIds : task[j].pc \in {"addError", "flush", "commit"}

\* The calls of the analytics components.
AnalyticsOps ==
    {"findShortestPath", "findOverlappingEvents", "findTemporalGaps", "getTimeline"}

\* The ids of the events the result of the latest analytics call shows.
SeenIds ==
    CASE reply.op = "findShortestPath" ->
            {reply.result.shortestPath[i].event_id :
                i \in 1..Len(reply.result.shortestPath)}
      [] reply.op = "findOverlappingEvents" ->
            UNION {PairIds(reply.result[i]) : i \in 1..Len(reply.result)}
      [] reply.op = "findTemporalGaps" ->
            IF reply.result.largest
            THEN {reply.result.largestGap.precedingEvent.event_id,
                  reply.result.largestGap.succeedingEvent.event_id}
            ELSE {}
      [] reply.op = "getTimeline" ->
            IF reply.result.found
            THEN {NodeIds(reply.result.tree)[i] :
                    i \in 1..Len(NodeIds(reply.result.tree))}
            ELSE {}
      [] OTHER -> {}

TimelineBesideOpenBatch ==
    /\ reply.op = "getTimeline"
    /\ reply.result.found
    /\ txn.open
    /\ \E r \in txn.rows : r.parent_event_id = reply.rootEventId

\* Some event of rows is its own ancestor over two parents or more.
HasLongCycle(rows) ==
    \E r \in rows :
        /\ r.parent_event_id # r.event_id
        /\ \E k \in 2..Cardinality(rows) : AncestorAt(rows, r.event_id, k) = r.event_id

\* C38: a findShortestPath call that has reached its loops leaves them and
\* returns (or throws), whatever the table holds: the search loop ends, and
\* so does the loop that rebuilds the path.
C38_SearchTerminates ==
    /\ (search.pc = "while") ~> (search.pc \in {"rebuild", "none"})
    /\ (search.pc = "path") ~> (search.pc = "none")
    /\ (search.pc # "none") ~> (search.pc = "none")

\* C38 witness: a path over two edges has been returned from a table in
\* which the parents of three events make a cycle.
C38_Witness ==
    /\ reply.op = "findShortestPath"
    /\ reply.result.error = NULL
    /\ Len(reply.result.shortestPath) = 3
    /\ Cardinality(store) = 3
    /\ HasLongCycle(store)

\* The source is its own parent, and the call has returned a path to its
\* child.
SearchFromOwnParent ==
    /\ reply.op = "findShortestPath"
    /\ Len(reply.result.shortestPath) = 2
    /\ \E r \in store :
          r.event_id = reply.sourceEventId /\ r.parent_event_id = r.event_id

\* What the loops return is what findShortestPath gives for the rows in
\* some order.
LoopsGiveFindShortestPath ==
    reply.op = "findShortestPath" =>
        \E events \in Orders(store) :
            reply.result = findShortestPath(events, reply.sourceEventId,
                                            reply.targetEventId)

\* The loops are bounded: the search loop visits an event once and the
\* queue holds at most one entry for each event beside those visited, and
\* the path names an event once.
LoopsBounded ==
    search.pc # "none" =>
        /\ Len(search.st.queue) <= Cardinality(store) + 1
        /\ Len(search.path) <= Cardinality(store)
        /\ \A i, k \in 1..Len(search.path) :
              search.path[i].event_id = search.path[k].event_id => i = k

====
